---------------------------- MODULE Spec2Model ----------------------------
(***************************************************************************)
(* Model of the sharded checkpoint engine of t5x/checkpoints.py:           *)
(* Checkpointer.save on a fixed fleet of hosts, the byte-budgeted leaf     *)
(* writes of _write_state_to_tensorstore, the publication of the staged    *)
(* directory and the recency retention policy.                             *)
(***************************************************************************)
EXTENDS Integers, Sequences, FiniteSets, TLC

\* ------------------------------------------------------------------ bounds
NumHosts == 2          \* processes of the fleet, jax.process_index() in 0..NumHosts-1
MaxStep == 2           \* train_state.step ranges over 1..MaxStep
MaxTime == 1           \* int(time.time()) ranges over 0..MaxTime
MaxKeep == 1           \* Checkpointer.keep ranges over 0..MaxKeep (0 is None)
MaxFailures == 1       \* number of save attempts in which an exception is raised
ConcurrentBytes == 3   \* concurrent_gb * 10**9, scaled
MaxCkpt == 3           \* steps of the published checkpoints of a directory, 0..MaxCkpt
MaxMetric == 1         \* values of the monitored metric, 0..MaxMetric
MaxRank == 2           \* len(write_shape) ranges over 0..MaxRank
MaxDim == 6            \* the sizes of write_shape range over 1..MaxDim
MaxEvents == 2          \* events written to the summary files
MaxDirStep == 10       \* the largest step with a directory: two decimal digits
MaxDirs == 3           \* directories under checkpoints_dir at one time
MaxKeepListed == 2     \* keep ranges over 1..MaxKeepListed where names are listed
MaxTarget == 37        \* target_elements ranges over 1..MaxTarget

Hosts == 0..(NumHosts - 1)
Steps == 1..MaxStep
Times == 0..MaxTime
SizeSet == 1..(ConcurrentBytes + 1)
CkptSteps == 0..MaxCkpt
MetricValues == 0..MaxMetric

\* ------------------------------------------------------- the train state
\* Leaves of the state dict: "n" is None in the state the Checkpointer was
\* built with (its _ParameterInfo is None), "a" has no partitioning axes
\* (ts_spec is None), "b" is sharded over the hosts, "c" is replicated on
\* every host.
Leaves == {"n", "a", "b", "c"}
PartLeaves == {"b", "c"}

\* partitioner.get_local_chunk_info(shape, axes): the region (slice) of the
\* leaf held by the host and the replica id of the host for that region.
get_local_chunk_info(h, l) ==
  IF l = "b" THEN [slice |-> h, replica_id |-> 0]
             ELSE [slice |-> 0, replica_id |-> h]

\* The regions a partitioned leaf is made of.
Regions(l) == {get_local_chunk_info(h, l).slice : h \in Hosts}

\* _get_param_info: None for a leaf that is None, ts_spec=None for a leaf
\* without partitioning axes, a ts.Spec otherwise.
HasParamInfo(l) == l # "n"
HasTsSpec(l) == l \in PartLeaves

\* self._should_write_dataset_ckpt:
\* dataset_iterator and data_layout.is_first_host_in_replica_set
should_write_dataset_ckpt(h) == h = 0

\* ----------------------------------------------------------- file system
Final == -1
DirNames == [step : Steps, tmp : Times \cup {Final}]
final_dir(s) == [step |-> s, tmp |-> Final]
tmp_dir(s, t) == [step |-> s, tmp |-> t]

ManifestFile == <<"checkpoint">>
ArrayFile(l, r) == <<"arr", l, r>>
DatasetFile(h) == <<"train_ds", h>>
FileNames == {ManifestFile}
               \cup {ArrayFile(l, r) : l \in PartLeaves, r \in Hosts}
               \cup {DatasetFile(h) : h \in Hosts}

NoManifest == [l \in Leaves |-> "absent"]

VARIABLES
  gcs,        \* self.checkpoints_dir.startswith('gs://')
  keep,       \* self.keep (0 stands for None)
  nbytes,     \* arr.nbytes of the partitioned leaves of the train state being written
  clock,      \* int(time.time()) when it was last read
  pc,         \* position of every host in save
  step,       \* train_state.step of the save the host is in
  timestamp,  \* the broadcast timestamp of the save the host is in
  task,       \* state of the _write_array coroutine of every leaf
  num_bytes,  \* _BytesConditionVariable._num_bytes of the host's save
  dirs,       \* existing directories under checkpoints_dir
  files,      \* existing files, as <<directory, file name>>
  msgpack,    \* contents of the manifest file of every directory
  reached,    \* per barrier, the hosts that have arrived in the current save
  wrote,      \* <<host, leaf>> pairs that wrote to the array store in the current save
  failed,     \* staging directories of the saves in which an exception was raised
  promoted,   \* steps whose staging directory was published and not pruned since
  \* the retention policies on a directory of published checkpoints
  ckpts,      \* steps of the published checkpoints: all_steps(checkpoints_dir)
  events,     \* value of the monitored metric in the summary files, per step
  save_best,  \* the checkpointer is a SaveBestCheckpointer
  metric_mode,                       \* self._metric_mode
  keep_checkpoints_without_metrics,  \* self._keep_checkpoints_without_metrics
  rpc,        \* position of the checkpointer: idle, remove_old, pruned
  removed,    \* the steps deleted by the pruning that has just ended
  \* restore from a directory of published checkpoints
  manifests,     \* contents of checkpoint_<step>/checkpoint and of its arrays, per step
  saved,         \* the state tree that was passed to the save of the step
  save_dtype,    \* self._save_dtype
  restore_dtype, \* self.restore_dtype (empty for None)
  restored,      \* arguments and outcome of the last call of restore
  \* a call of _choose_chunk_shape
  write_shape,      \* the argument write_shape
  target_elements,  \* the argument target_elements
  dim_factors,      \* dim_factors[i]: the divisors of write_shape[i] still in the list
  cpc,              \* position of the call: idle, loop, returned, assert_failed
  chunk_shape,      \* the list the call returned
  \* the storage spec of one leaf, in _write_array and _read_ts
  ckpt_dir,         \* the checkpoint directory the spec is resolved against
  ts_given,         \* the spec handed in: param_info.ts_spec or the entry of the manifest
  has_param_info,   \* param_info is not None
  info_shape,       \* param_info.shape (empty for None)
  ts_spec_dict,     \* the dict _update_ts_path_from_relative_to_absolute updates in place
  ts_once,          \* the dict as the first application left it
  tpc,              \* fresh, once, twice (applications of the update), written, read
  ts_error,         \* the exception raised, "" for none
  opened,           \* the specs ts.open was called with
  manifest_entry,   \* what _write_array returned for the manifest (empty before)
  acquired,         \* the coroutine awaited bytes_cv.wait_for_bytes
  read_value,       \* what _read_ts returned (empty before, and when it raised)
  \* the backend migration of the contents of a manifest
  root_is_gs,       \* ckpt_dir.startswith('gs://')
  mig_given,        \* the contents as msgpack_restore returned them
  ckpt_contents,    \* the contents, updated in place
  mig_once,         \* the contents as the first migration left them
  mpc,              \* fresh, once, twice (migrations applied)
  mig_error,        \* the exception raised, "" for none
  \* the metric run and tag of a SaveBestCheckpointer and the summary logs
  metric_name_to_monitor,  \* self._metric_name_to_monitor, split at '/'
  logdirs,          \* the log runs: subdirectories of checkpoints_dir with event files
  summaries,        \* the events written so far, in the order they were written
  metric_run,       \* self._metric_run (empty for None)
  metric_tag,       \* self._metric_tag (empty for None)
  collected,        \* what the last _populate_metrics_for_steps returned
  scanned,          \* the arguments of the last _populate_metrics_for_steps
  \* the names under checkpoints_dir and a call of all_steps
  entries,          \* the directories under checkpoints_dir: name, and whether
                    \* a file named checkpoint lies in it
  listed            \* what the last call of all_steps returned

retention == <<ckpts, events, save_best, metric_mode,
               keep_checkpoints_without_metrics, rpc, removed>>

restoring == <<manifests, saved, save_dtype, restore_dtype, restored>>

chunking == <<write_shape, target_elements, dim_factors, cpc, chunk_shape>>

tspaths == <<ckpt_dir, ts_given, has_param_info, info_shape, ts_spec_dict,
             ts_once, tpc, ts_error, opened, manifest_entry, acquired,
             read_value>>

migrating == <<root_is_gs, mig_given, ckpt_contents, mig_once, mpc, mig_error>>

metricrun == <<metric_name_to_monitor, logdirs, summaries, metric_run,
               metric_tag, collected, scanned>>

\* the variables of the calls of the module-level functions and of the
\* metric lookup
listing == <<entries, listed>>

pure == <<chunking, tspaths, migrating, metricrun, listing>>

vars == <<gcs, keep, nbytes, clock, pc, step, timestamp, task,
          num_bytes, dirs, files, msgpack, reached, wrote, failed, promoted,
          retention, restoring, pure>>

config == <<gcs, keep>>
fsvars == <<dirs, files, msgpack>>

Barriers == {"make_dir", "ts_write_complete", "write_complete"}

NewTasks == [l \in Leaves |-> "new"]
NoBytes == [l \in PartLeaves |-> 0]
NoReached == [b \in Barriers |-> {}]

InitSave ==
  /\ gcs \in BOOLEAN
  /\ keep \in 0..MaxKeep
  /\ nbytes = NoBytes
  /\ clock = 0
  /\ pc = [h \in Hosts |-> "idle"]
  /\ step = [h \in Hosts |-> 0]
  /\ timestamp = [h \in Hosts |-> 0]
  /\ task = [h \in Hosts |-> NewTasks]
  /\ num_bytes = [h \in Hosts |-> ConcurrentBytes]
  /\ dirs = {}
  /\ files = {}
  /\ msgpack = [d \in DirNames |-> NoManifest]
  /\ reached = NoReached
  /\ wrote = {}
  /\ failed = {}
  /\ promoted = {}

\* no save is under study: the fleet is left out
NoSaving ==
  /\ nbytes = << >>
  /\ clock = 0
  /\ pc = << >>
  /\ step = << >>
  /\ timestamp = << >>
  /\ task = << >>
  /\ num_bytes = << >>
  /\ dirs = {}
  /\ files = {}
  /\ msgpack = << >>
  /\ reached = << >>
  /\ wrote = {}
  /\ failed = {}
  /\ promoted = {}

\* no directory of published checkpoints is under study
NoRetention ==
  /\ ckpts = {}
  /\ events = << >>
  /\ save_best = FALSE
  /\ metric_mode = "max"
  /\ keep_checkpoints_without_metrics = TRUE
  /\ rpc = "idle"
  /\ removed = {}

\* restore has not been called
NotRestored ==
  [error |-> "not called", step_arg |-> {}, path_arg |-> {}, fns |-> << >>,
   fallback |-> {}, step |-> {}, read |-> {}, applied |-> << >>,
   state |-> << >>]

\* no restore is under study
NoRestoring ==
  /\ manifests = << >>
  /\ saved = << >>
  /\ save_dtype = "float32"
  /\ restore_dtype = {}
  /\ restored = NotRestored

\* _choose_chunk_shape is not being called
NoChunking ==
  /\ write_shape = << >>
  /\ target_elements = 1
  /\ dim_factors = << >>
  /\ cpc = "idle"
  /\ chunk_shape = << >>

\* an inline value of a manifest: a leaf that is not a storage spec
Inline == [array |-> 0]

\* no storage spec is being resolved
NoTsPaths ==
  /\ ckpt_dir = [gs |-> FALSE, bucket |-> "", dir |-> [abs |-> FALSE, parts |-> << >>]]
  /\ ts_given = Inline
  /\ has_param_info = FALSE
  /\ info_shape = {}
  /\ ts_spec_dict = Inline
  /\ ts_once = Inline
  /\ tpc = "idle"
  /\ ts_error = ""
  /\ opened = {}
  /\ manifest_entry = {}
  /\ acquired = FALSE
  /\ read_value = {}

\* no manifest is being migrated
NoMigrating ==
  /\ root_is_gs = FALSE
  /\ mig_given = << >>
  /\ ckpt_contents = << >>
  /\ mig_once = << >>
  /\ mpc = "idle"
  /\ mig_error = ""

\* _populate_metrics_for_steps has not been called
NotScanned == [called |-> FALSE, order |-> << >>, steps |-> {}]

\* no metric lookup is under study
NoMetricRun ==
  /\ metric_name_to_monitor = << >>
  /\ logdirs = {}
  /\ summaries = << >>
  /\ metric_run = << >>
  /\ metric_tag = << >>
  /\ collected = << >>
  /\ scanned = NotScanned

\* all_steps has not been called
NotListed == [called |-> FALSE, steps |-> << >>]

\* no directory listing is under study
NoListing ==
  /\ entries = {}
  /\ listed = NotListed

\* no module-level function is under study
NoPure == NoChunking /\ NoTsPaths /\ NoMigrating /\ NoMetricRun /\ NoListing

Init == InitSave /\ NoRetention /\ NoRestoring /\ NoPure

\* ---------------------------------------------------------------- helpers
FilesOf(d) == {f \in FileNames : <<d, f>> \in files}

\* gfile.exists(dir): a directory exists when it was created or, on an
\* object store, when some object lies under its prefix.
Exists(d) == d \in dirs \/ FilesOf(d) # {}

FinalDir(h) == final_dir(step[h])
TmpDir(h) == tmp_dir(step[h], timestamp[h])

\* all_steps(checkpoints_dir): glob checkpoint_*/checkpoint, keep the paths
\* matching .*/checkpoint_(\d+)/checkpoint$ (staging names do not match).
all_steps == {s \in Steps : <<final_dir(s), ManifestFile>> \in files}

\* sorted(...) as a sequence in ascending order
RECURSIVE Sorted(_)
Sorted(S) ==
  IF S = {} THEN << >>
  ELSE LET m == CHOOSE x \in S : \A y \in S : x <= y
       IN <<m>> \o Sorted(S \ {m})

\* an exception may be raised in the attempt staging under directory d
MayRaise(d) == Cardinality(failed \cup {d}) <= MaxFailures

\* the host leaves save (return or exception)
Return(h) ==
  /\ pc' = [pc EXCEPT ![h] = "idle"]
  /\ step' = [step EXCEPT ![h] = 0]
  /\ timestamp' = [timestamp EXCEPT ![h] = 0]
  /\ task' = [task EXCEPT ![h] = NewTasks]
  /\ num_bytes' = [num_bytes EXCEPT ![h] = ConcurrentBytes]

Arrive(h, b) == reached' = [reached EXCEPT ![b] = @ \cup {h}]

\* ------------------------------------------------------------------- save
\* save(train_state): step = train_state.step; the host enters the
\* broadcast of the timestamp, a collective of all hosts.
SaveCall(h, s) ==
  /\ pc[h] = "idle"
  /\ \A g \in Hosts : pc[g] = "broadcast" => step[g] = s
  /\ pc' = [pc EXCEPT ![h] = "broadcast"]
  /\ step' = [step EXCEPT ![h] = s]
  /\ UNCHANGED <<config, pure, retention, restoring, nbytes, clock, timestamp, task, num_bytes, fsvars,
                 reached, wrote, failed,
                 promoted>>

\* mutant: a host gets the timestamp without the other hosts taking part
Broadcast_Alone(t) ==
  /\ \E h \in Hosts : pc[h] = "broadcast"
  /\ t >= clock
  /\ clock' = t
  /\ pc' = [h \in Hosts |-> IF pc[h] = "broadcast" THEN "exists" ELSE pc[h]]
  /\ timestamp' = [h \in Hosts |-> IF pc[h] = "broadcast" THEN t ELSE timestamp[h]]
  /\ reached' = [b \in Barriers |-> {h \in reached[b] : pc[h] # "broadcast"}]
  /\ UNCHANGED <<config, pure, retention, restoring, nbytes, step, task, num_bytes, fsvars, failed,
                 wrote, promoted>>

\* timestamp = broadcast_one_to_all(np.int32(time.time()))
\* t is the value of int(time.time()) on process 0: not before the last reading
Broadcast(t) ==
  /\ \A h \in Hosts : pc[h] = "broadcast"
  /\ t >= clock
  /\ clock' = t
  /\ pc' = [h \in Hosts |-> "exists"]
  /\ timestamp' = [h \in Hosts |-> t]
  /\ reached' = NoReached
  /\ wrote' = {}
  /\ UNCHANGED <<config, pure, retention, restoring, nbytes, step, task, num_bytes, fsvars, failed,
                 promoted>>

\* the process index save compares jax.process_index() with
Designated == 0

\* mutant: every process takes itself for the designated one
IsDesignated_Every(h) == TRUE

\* jax.process_index() == 0
IsDesignated(h) == h = Designated

\* mutant: the existence check looks at the staging directory
FinalDirExists_Staging(h) == Exists(TmpDir(h))

\* if gfile.exists(final_dir): return
FinalDirExists(h) == Exists(FinalDir(h))

SkipSave(h) ==
  /\ pc[h] = "exists"
  /\ FinalDirExists(h)
  /\ Return(h)
  /\ UNCHANGED <<config, pure, retention, restoring, nbytes, clock, fsvars, reached, wrote, failed,
                 promoted>>

\* the final directory is absent: a non-designated host goes to the barrier
StartSave(h) ==
  /\ pc[h] = "exists"
  /\ ~FinalDirExists(h)
  /\ IF IsDesignated(h)
       THEN /\ pc' = [pc EXCEPT ![h] = "makedirs"]
            /\ UNCHANGED reached
       ELSE /\ pc' = [pc EXCEPT ![h] = "sync_make_dir"]
            /\ Arrive(h, "make_dir")
  /\ UNCHANGED <<config, pure, retention, restoring, nbytes, clock, step, timestamp, task, num_bytes,
                 fsvars, wrote, failed,
                 promoted>>

\* if jax.process_index() == 0: gfile.makedirs(tmp_dir)
MakeDirs(h) ==
  /\ pc[h] = "makedirs"
  /\ dirs' = dirs \cup {TmpDir(h)}
  /\ pc' = [pc EXCEPT ![h] = "sync_make_dir"]
  /\ Arrive(h, "make_dir")
  /\ UNCHANGED <<config, pure, retention, restoring, nbytes, clock, step, timestamp, task, num_bytes,
                 files, msgpack, wrote, failed,
                 promoted>>

\* ------------------------------------------ _write_state_to_tensorstore
\* n_bytes = arr.nbytes; if n_bytes > concurrent_bytes: n_bytes = concurrent_bytes
ClampedBytes(l) ==
  IF nbytes[l] > ConcurrentBytes THEN ConcurrentBytes ELSE nbytes[l]

\* mutant: every replica writes its region
WritesLeaf_EveryReplica(h, l) == TRUE

\* if param_info.local_chunk_info.replica_id == 0
WritesLeaf(h, l) == get_local_chunk_info(h, l).replica_id = 0

\* mutant: the bytes are taken without waiting for them
HasBytes_NoWait(h, n) == TRUE

\* wait_for(lambda: self._num_bytes > n_bytes)
HasBytes(h, n) == num_bytes[h] > n

\* mutant: the barrier lets the hosts go as soon as one of them arrives
AllAt_Some(p) == \E h \in Hosts : pc[h] = p

\* sync_global_devices(name): every host has arrived at the barrier
AllAt(p) == \A h \in Hosts : pc[h] = p

\* _write_array up to its first suspension.  A leaf whose ts_spec is None
\* returns its value for the msgpack; a partitioned leaf of which the host is
\* not replica 0 returns its ts_spec; the other leaves wait for bytes.
StartWriteArray(h, l) ==
  IF ~HasParamInfo(l) \/ ~HasTsSpec(l) THEN "value"
  ELSE IF WritesLeaf(h, l) THEN "new"
  ELSE "spec"

\* sync_global_devices('checkpointer:make_dir:...'), then the start of
\* _write_state_to_tensorstore: bytes_cv = _BytesConditionVariable(
\* concurrent_bytes) and one _write_array coroutine per leaf.
\* sizes is arr.nbytes of the partitioned leaves of train_state.
SyncMakeDir(sizes) ==
  /\ AllAt("sync_make_dir")
  /\ pc' = [h \in Hosts |-> "write"]
  /\ task' = [h \in Hosts |-> [l \in Leaves |-> StartWriteArray(h, l)]]
  /\ num_bytes' = [h \in Hosts |-> ConcurrentBytes]
  /\ nbytes' = sizes
  /\ UNCHANGED <<config, pure, retention, restoring, clock, step, timestamp, fsvars, reached,
                 wrote, failed,
                 promoted>>

\* await bytes_cv.wait_for_bytes(n_bytes)
wait_for_bytes(h, l) ==
  /\ pc[h] = "write"
  /\ task[h][l] = "new"
  /\ HasBytes(h, ClampedBytes(l))
  /\ num_bytes' = [num_bytes EXCEPT ![h] = @ - ClampedBytes(l)]
  /\ task' = [task EXCEPT ![h][l] = "holding"]
  /\ UNCHANGED <<config, pure, retention, restoring, nbytes, clock, pc, step, timestamp, fsvars,
                 reached, wrote, failed,
                 promoted>>

\* t = await ts.open(spec at ckpt_dir, create=True, open=True)
\* await t[param_info.local_chunk_info.slice].write(arr)
TsWrite(h, l) ==
  /\ pc[h] = "write"
  /\ task[h][l] = "holding"
  /\ files' = files \cup
       {<<TmpDir(h), ArrayFile(l, get_local_chunk_info(h, l).slice)>>}
  /\ wrote' = wrote \cup {<<h, l>>}
  /\ task' = [task EXCEPT ![h][l] = "written"]
  /\ UNCHANGED <<config, pure, retention, restoring, nbytes, clock, pc, step, timestamp, num_bytes,
                 dirs, msgpack, reached, failed,
                 promoted>>

\* mutant: the coroutine returns without giving its bytes back
return_bytes_Kept(h, l) ==
  /\ pc[h] = "write"
  /\ task[h][l] = "written"
  /\ task' = [task EXCEPT ![h][l] = "spec"]
  /\ UNCHANGED <<config, pure, retention, restoring, nbytes, clock, pc, step, timestamp, num_bytes,
                 fsvars, reached, wrote, failed,
                 promoted>>

\* await bytes_cv.return_bytes(n_bytes); return param_info.ts_spec
return_bytes(h, l) ==
  /\ pc[h] = "write"
  /\ task[h][l] = "written"
  /\ num_bytes' = [num_bytes EXCEPT ![h] = @ + ClampedBytes(l)]
  /\ task' = [task EXCEPT ![h][l] = "spec"]
  /\ UNCHANGED <<config, pure, retention, restoring, nbytes, clock, pc, step, timestamp, fsvars,
                 reached, wrote, failed,
                 promoted>>

\* an exception raised by the array store while the leaf is being written
\* propagates out of _run_future_tree and out of save
WriteRaises(h, l) ==
  /\ pc[h] = "write"
  /\ task[h][l] = "holding"
  /\ MayRaise(TmpDir(h))
  /\ failed' = failed \cup {TmpDir(h)}
  /\ Return(h)
  /\ UNCHANGED <<config, pure, retention, restoring, nbytes, clock, fsvars, reached, wrote,
                 promoted>>

\* mutant: the host does not wait for its coroutines
TaskDone_NoWait(h, l) == TRUE

\* the coroutine of the leaf has returned
TaskDone(h, l) == task[h][l] \in {"value", "spec"}

\* mutant: the host goes on to the dataset checkpoint without the barrier
RunFutureTree_NoBarrier(h) ==
  /\ pc[h] = "write"
  /\ \A l \in Leaves : TaskDone(h, l)
  /\ pc' = [pc EXCEPT ![h] = "dataset"]
  /\ UNCHANGED <<config, pure, retention, restoring, nbytes, clock, step, timestamp, task, num_bytes,
                 fsvars, reached, wrote, failed,
                 promoted>>

\* written_state_dict = _run_future_tree(future_written_state)
RunFutureTree(h) ==
  /\ pc[h] = "write"
  /\ \A l \in Leaves : TaskDone(h, l)
  /\ pc' = [pc EXCEPT ![h] = "sync_ts_write_complete"]
  /\ Arrive(h, "ts_write_complete")
  /\ UNCHANGED <<config, pure, retention, restoring, nbytes, clock, step, timestamp, task, num_bytes,
                 fsvars, wrote, failed,
                 promoted>>

\* sync_global_devices('checkpointer:ts_write_complete:...')
SyncTsWriteComplete ==
  /\ AllAt("sync_ts_write_complete")
  /\ pc' = [h \in Hosts |-> "dataset"]
  /\ nbytes' = NoBytes
  /\ UNCHANGED <<config, pure, retention, restoring, clock, step, timestamp, task, num_bytes,
                 fsvars, reached, wrote, failed,
                 promoted>>

\* if self._should_write_dataset_ckpt: self._dataset_ckpt.write(...)
WriteDatasetCkpt(h) ==
  /\ pc[h] = "dataset"
  /\ files' = IF should_write_dataset_ckpt(h)
                THEN files \cup {<<TmpDir(h), DatasetFile(h)>>}
                ELSE files
  /\ pc' = [pc EXCEPT ![h] = "sync_write_complete"]
  /\ Arrive(h, "write_complete")
  /\ UNCHANGED <<config, pure, retention, restoring, nbytes, clock, step, timestamp, task, num_bytes,
                 dirs, msgpack, wrote, failed,
                 promoted>>

\* except tf.errors.FailedPreconditionError as e: raise e
DatasetCkptRaises(h) ==
  /\ pc[h] = "dataset"
  /\ should_write_dataset_ckpt(h)
  /\ MayRaise(TmpDir(h))
  /\ failed' = failed \cup {TmpDir(h)}
  /\ Return(h)
  /\ UNCHANGED <<config, pure, retention, restoring, nbytes, clock, fsvars, reached, wrote,
                 promoted>>

\* sync_global_devices('checkpointer:write_complete:...')
\* if jax.process_index() != 0: return
SyncWriteComplete ==
  /\ AllAt("sync_write_complete")
  /\ pc' = [h \in Hosts |-> IF IsDesignated(h) THEN "manifest" ELSE "idle"]
  /\ step' = [h \in Hosts |-> IF IsDesignated(h) THEN step[h] ELSE 0]
  /\ timestamp' = [h \in Hosts |-> IF IsDesignated(h) THEN timestamp[h] ELSE 0]
  /\ task' = [h \in Hosts |-> IF IsDesignated(h) THEN task[h] ELSE NewTasks]
  /\ UNCHANGED <<config, pure, retention, restoring, nbytes, clock, num_bytes, fsvars, reached, wrote,
                 failed,
                 promoted>>

\* mutant: the manifest file is not written
WriteManifest_Skipped(h) ==
  /\ pc[h] = "manifest"
  /\ pc' = [pc EXCEPT ![h] = "finalize"]
  /\ UNCHANGED <<config, pure, retention, restoring, nbytes, clock, step, timestamp, task, num_bytes,
                 fsvars, reached, wrote, failed, promoted>>

\* msgpack_bytes = to_bytes({'version': VERSION, 'optimizer': written_state_dict})
\* with gfile.GFile(os.path.join(tmp_dir, 'checkpoint'), 'wb') as fp: fp.write(...)
WriteManifest(h) ==
  /\ pc[h] = "manifest"
  /\ files' = files \cup {<<TmpDir(h), ManifestFile>>}
  /\ msgpack' = [msgpack EXCEPT ![TmpDir(h)] = task[h]]
  /\ pc' = [pc EXCEPT ![h] = "finalize"]
  /\ UNCHANGED <<config, pure, retention, restoring, nbytes, clock, step, timestamp, task, num_bytes,
                 dirs, reached, wrote, failed,
                 promoted>>

\* gfile.rename(tmp_dir, final_dir)
Rename(h) ==
  /\ pc[h] = "finalize"
  /\ ~gcs
  /\ dirs' = (dirs \ {TmpDir(h)}) \cup {FinalDir(h)}
  /\ files' = {e \in files : e[1] # TmpDir(h)}
                \cup {<<FinalDir(h), f>> : f \in FilesOf(TmpDir(h))}
  /\ msgpack' = [msgpack EXCEPT ![FinalDir(h)] = msgpack[TmpDir(h)],
                                ![TmpDir(h)] = NoManifest]
  /\ pc' = [pc EXCEPT ![h] = "remove_old"]
  /\ promoted' = promoted \cup {step[h]}
  /\ UNCHANGED <<config, pure, retention, restoring, nbytes, clock, step, timestamp, task, num_bytes,
                 reached, wrote, failed>>

\* subprocess.run(['gsutil', '-m', 'mv', tmp_dir, final_dir]): the objects
\* under the staging prefix are moved one by one, in no particular order
GsutilMvObject(h, f) ==
  /\ pc[h] = "finalize"
  /\ gcs
  /\ <<TmpDir(h), f>> \in files
  /\ files' = (files \ {<<TmpDir(h), f>>}) \cup {<<FinalDir(h), f>>}
  /\ msgpack' = IF f = ManifestFile
                  THEN [msgpack EXCEPT ![FinalDir(h)] = msgpack[TmpDir(h)],
                                       ![TmpDir(h)] = NoManifest]
                  ELSE msgpack
  /\ UNCHANGED <<config, pure, retention, restoring, nbytes, clock, pc, step, timestamp, task,
                 num_bytes, dirs, reached, wrote, failed,
                 promoted>>

\* gsutil mv: the directory placeholder object written by makedirs
GsutilMvPlaceholder(h) ==
  /\ pc[h] = "finalize"
  /\ gcs
  /\ TmpDir(h) \in dirs
  /\ dirs' = (dirs \ {TmpDir(h)}) \cup {FinalDir(h)}
  /\ UNCHANGED <<config, pure, retention, restoring, nbytes, clock, pc, step, timestamp, task,
                 num_bytes, files, msgpack, reached, wrote, failed,
                 promoted>>

\* gsutil mv has moved every object and returns
GsutilMvDone(h) ==
  /\ pc[h] = "finalize"
  /\ gcs
  /\ ~Exists(TmpDir(h))
  /\ pc' = [pc EXCEPT ![h] = "remove_old"]
  /\ promoted' = promoted \cup {step[h]}
  /\ UNCHANGED <<config, pure, retention, restoring, nbytes, clock, step, timestamp, task, num_bytes,
                 fsvars, reached, wrote, failed>>

\* subprocess.run(..., check=True): gsutil exits with an error after having
\* moved some of the objects and CalledProcessError is raised
GsutilMvRaises(h) ==
  /\ pc[h] = "finalize"
  /\ gcs
  /\ MayRaise(TmpDir(h))
  /\ failed' = failed \cup {TmpDir(h)}
  /\ Return(h)
  /\ UNCHANGED <<config, pure, retention, restoring, nbytes, clock, fsvars, reached, wrote,
                 promoted>>

\* mutant: the pruning ranks by the time of saving and spares the step that
\* was saved last
StepsToRemove_BySaveTime ==
  IF keep = 0 THEN {}
  ELSE LET existing_steps == Sorted(all_steps \ {step[Designated]})
           to_remove == Cardinality(all_steps) - keep
       IN IF to_remove <= 0 THEN {}
          ELSE {existing_steps[i] : i \in 1..to_remove}

\* Checkpointer._remove_old_checkpoints: the steps whose directory is deleted
StepsToRemove ==
  IF keep = 0 THEN {}
  ELSE LET existing_steps == Sorted(all_steps)
           to_remove == Len(existing_steps) - keep
       IN IF to_remove <= 0 THEN {}
          ELSE {existing_steps[i] : i \in 1..to_remove}

\* mutant: the pruning removes every directory of the steps it selects
RemoveOldCheckpoints_EveryDir(h) ==
  /\ pc[h] = "remove_old"
  /\ LET gone == {d \in DirNames : d.step \in StepsToRemove}
     IN /\ dirs' = dirs \ gone
        /\ files' = {e \in files : e[1] \notin gone}
        /\ msgpack' = [d \in DirNames |->
                         IF d \in gone THEN NoManifest ELSE msgpack[d]]
  /\ Return(h)
  /\ promoted' = promoted \ StepsToRemove
  /\ UNCHANGED <<config, pure, retention, restoring, nbytes, clock, reached, wrote, failed>>

\* self._remove_old_checkpoints() with gfile.rmtree(ckpt_dir), then save returns
RemoveOldCheckpoints(h) ==
  /\ pc[h] = "remove_old"
  /\ LET gone == {final_dir(s) : s \in StepsToRemove}
     IN /\ dirs' = dirs \ gone
        /\ files' = {e \in files : e[1] \notin gone}
        /\ msgpack' = [d \in DirNames |->
                         IF d \in gone THEN NoManifest ELSE msgpack[d]]
  /\ Return(h)
  /\ promoted' = promoted \ StepsToRemove
  /\ UNCHANGED <<config, pure, retention, restoring, nbytes, clock, reached, wrote, failed>>

Next ==
  \/ \E h \in Hosts, s \in Steps : SaveCall(h, s)
  \/ \E t \in Times : Broadcast(t)
  \/ \E h \in Hosts : SkipSave(h)
  \/ \E h \in Hosts : StartSave(h)
  \/ \E h \in Hosts : MakeDirs(h)
  \/ \E sizes \in [PartLeaves -> SizeSet] : SyncMakeDir(sizes)
  \/ \E h \in Hosts, l \in Leaves : wait_for_bytes(h, l)
  \/ \E h \in Hosts, l \in Leaves : TsWrite(h, l)
  \/ \E h \in Hosts, l \in Leaves : return_bytes(h, l)
  \/ \E h \in Hosts : RunFutureTree(h)
  \/ SyncTsWriteComplete
  \/ \E h \in Hosts : WriteDatasetCkpt(h)
  \/ SyncWriteComplete
  \/ \E h \in Hosts : WriteManifest(h)
  \/ \E h \in Hosts : Rename(h)
  \/ \E h \in Hosts, f \in FileNames : GsutilMvObject(h, f)
  \/ \E h \in Hosts : GsutilMvPlaceholder(h)
  \/ \E h \in Hosts : GsutilMvDone(h)
  \/ \E h \in Hosts : RemoveOldCheckpoints(h)

Spec == Init /\ [][Next]_vars

\* the event loop of _run_future_tree runs every _write_array coroutine that
\* can go on: the array store completes the write of a coroutine that holds
\* bytes, return_bytes follows, and notify_all makes every coroutine waiting
\* in wait_for re-evaluate its predicate
WriteFairness ==
  \A h \in Hosts, l \in PartLeaves :
    /\ WF_vars(wait_for_bytes(h, l))
    /\ WF_vars(TsWrite(h, l))
    /\ WF_vars(return_bytes(h, l))

SpecWriteLive == Spec /\ WriteFairness

\* the executions in which the array store, the dataset checkpoint or gsutil
\* may raise
NextFaults ==
  \/ Next
  \/ \E h \in Hosts, l \in Leaves : WriteRaises(h, l)
  \/ \E h \in Hosts : DatasetCkptRaises(h)
  \/ \E h \in Hosts : GsutilMvRaises(h)

SpecFaults == Init /\ [][NextFaults]_vars

\* ------------------------------------------------- retention policies
\* The pruning that follows a publication, on a directory that may hold the
\* checkpoints of earlier runs: Checkpointer._remove_old_checkpoints and
\* SaveBestCheckpointer._remove_old_checkpoints.

savevars == <<gcs, nbytes, clock, pc, step, timestamp, task, num_bytes,
              dirs, files, msgpack, reached, wrote, failed, promoted>>

\* SaveBestCheckpointer.__init__: metric_mode in ('max', 'min'); a plain
\* Checkpointer has neither attribute
InitRetention ==
  /\ NoSaving
  /\ gcs = FALSE
  /\ keep \in 0..MaxKeep
  /\ ckpts \in SUBSET CkptSteps
  /\ events = << >>
  /\ save_best \in BOOLEAN
  /\ metric_mode \in {"max", "min"}
  /\ keep_checkpoints_without_metrics \in BOOLEAN
  /\ ~save_best => (metric_mode = "max" /\ keep_checkpoints_without_metrics)
  /\ rpc = "idle"
  /\ removed = {}
  /\ NoRestoring
  /\ NoPure

\* existing_steps = self.all_steps(), ascending
existing_steps == Sorted(ckpts)

\* mutant: the last n elements are taken
Prefix_Last(seq, n) == SubSeq(seq, Len(seq) - n + 1, Len(seq))

\* seq[:n]
Prefix(seq, n) == SubSeq(seq, 1, n)

\* Checkpointer._remove_old_checkpoints: the steps it deletes
RecencyToRemove ==
  IF keep = 0 THEN {}
  ELSE LET to_remove == Len(existing_steps) - keep
       IN IF to_remove <= 0 THEN {}
          ELSE {Prefix(existing_steps, to_remove)[i] : i \in 1..to_remove}

\* _populate_metrics_for_steps(existing_steps): the events of the steps
\* that exist
metrics_by_step == [s \in (DOMAIN events) \cap ckpts |-> events[s]]

\* mutant: the value that makes a checkpoint the best of its mode
not_found_value_Best == IF metric_mode = "max" THEN MaxMetric + 1 ELSE 0 - 1

\* float('-inf' if self._metric_mode == 'max' else 'inf')
not_found_value == IF metric_mode = "max" THEN 0 - 1 ELSE MaxMetric + 1

\* metrics_by_step.get(step, not_found_value)
MetricKey(s) ==
  IF s \in DOMAIN metrics_by_step THEN metrics_by_step[s] ELSE not_found_value

\* mutant: the sort leaves the steps in their order
ComesBefore_ByStep(seq, x, y) ==
  (CHOOSE k \in 1..Len(seq) : seq[k] = x) < (CHOOSE k \in 1..Len(seq) : seq[k] = y)

\* x comes before y in sorted(seq, key=MetricKey, reverse=(mode != 'max')):
\* the sort is stable, also when reversed
ComesBefore(seq, x, y) ==
  LET i == CHOOSE k \in 1..Len(seq) : seq[k] = x
      j == CHOOSE k \in 1..Len(seq) : seq[k] = y
  IN \/ (metric_mode = "max" /\ MetricKey(x) < MetricKey(y))
     \/ (metric_mode # "max" /\ MetricKey(x) > MetricKey(y))
     \/ (MetricKey(x) = MetricKey(y) /\ i < j)

RECURSIVE SortedByMetric(_, _)
SortedByMetric(seq, left) ==
  IF left = {} THEN << >>
  ELSE LET m == CHOOSE x \in left :
                  \A y \in left \ {x} : ComesBefore(seq, x, y)
       IN <<m>> \o SortedByMetric(seq, left \ {m})

\* mutant: the latest checkpoint is put in front of the ranked ones
RankedSteps_LatestFirst(candidates, latest) ==
  <<latest>> \o
    SortedByMetric(candidates, {candidates[i] : i \in 1..Len(candidates)})

\* existing_steps = sorted(existing_steps, key=..., reverse=...)
\* existing_steps.append(latest_checkpoint)
RankedSteps(candidates, latest) ==
  SortedByMetric(candidates, {candidates[i] : i \in 1..Len(candidates)})
    \o <<latest>>

\* mutant: every step passes the filter
HasMetric_Every(s) == TRUE

\* filter(lambda s: s in metrics_by_step, existing_steps)
HasMetric(s) == s \in DOMAIN metrics_by_step

\* mutant: keep counts the latest checkpoint too
BestToRemove_KeepOnly ==
  IF keep = 0 THEN {}
  ELSE IF Len(existing_steps) <= keep + 1 THEN {}
  ELSE LET latest_checkpoint == existing_steps[Len(existing_steps)]
           others == Prefix(existing_steps, Len(existing_steps) - 1)
           candidates == IF keep_checkpoints_without_metrics
                           THEN SelectSeq(others, HasMetric)
                           ELSE others
           to_remove == Len(candidates) - keep + 1
       IN IF to_remove <= 0 THEN {}
          ELSE LET ranked == RankedSteps(candidates, latest_checkpoint)
               IN {Prefix(ranked, to_remove)[i] : i \in 1..to_remove}

\* SaveBestCheckpointer._remove_old_checkpoints: the steps it deletes
BestToRemove ==
  IF keep = 0 THEN {}
  ELSE IF Len(existing_steps) <= keep + 1 THEN {}
  ELSE LET latest_checkpoint == existing_steps[Len(existing_steps)]
           others == Prefix(existing_steps, Len(existing_steps) - 1)
           candidates == IF keep_checkpoints_without_metrics
                           THEN SelectSeq(others, HasMetric)
                           ELSE others
           to_remove == Len(candidates) - keep
       IN IF to_remove <= 0 THEN {}
          ELSE LET ranked == RankedSteps(candidates, latest_checkpoint)
               IN {Prefix(ranked, to_remove)[i] : i \in 1..to_remove}

\* save publishes checkpoint_<s> and goes on to _remove_old_checkpoints
Publish(s) ==
  /\ rpc \in {"idle", "pruned"}
  /\ s \notin ckpts
  /\ ckpts' = ckpts \cup {s}
  /\ rpc' = "remove_old"
  /\ removed' = {}
  /\ UNCHANGED <<keep, pure, savevars, restoring, events, save_best, metric_mode,
                 keep_checkpoints_without_metrics>>

\* an evaluation or the trainer writes the summary of step s: the last event
\* of a step is the one _populate_metrics_for_steps keeps
WriteEvent(s, v) ==
  /\ events' = [t \in (DOMAIN events) \cup {s} |-> IF t = s THEN v ELSE events[t]]
  /\ events' # events
  /\ rpc' = IF rpc = "pruned" THEN "idle" ELSE rpc
  /\ removed' = {}
  /\ UNCHANGED <<keep, pure, savevars, restoring, ckpts, save_best, metric_mode,
                 keep_checkpoints_without_metrics>>

\* self._remove_old_checkpoints(): gfile.rmtree of every selected directory
Prune ==
  /\ rpc = "remove_old"
  /\ LET gone == IF save_best THEN BestToRemove ELSE RecencyToRemove
     IN /\ ckpts' = ckpts \ gone
        /\ removed' = gone
  /\ rpc' = "pruned"
  /\ UNCHANGED <<keep, pure, savevars, restoring, events, save_best, metric_mode,
                 keep_checkpoints_without_metrics>>

NextRetention ==
  \/ \E s \in CkptSteps : Publish(s)
  \/ \E s \in CkptSteps, v \in MetricValues : WriteEvent(s, v)
  \/ Prune

SpecRetention == InitRetention /\ [][NextRetention]_vars

\* ----------------------------------------------------------------- restore
\* Checkpointer.restore on one host, with lazy_parameters = False, from a
\* directory of published checkpoints.  An optional argument is the empty
\* set for None and a set of one element otherwise.

VERSION == 3
MinVersion == 2

RestoreSteps == 0..MaxCkpt
Versions == 0..VERSION
DTypes == {"float32", "bfloat16", "uint16"}
LeafValues == {0, 1}     \* a zero and a non-zero element, exact in every dtype

\* the keys of the state dict of the train state of the Checkpointer: "a" is
\* under 'target', "b" under 'state'
TreeKeys == {"a", "b"}
IsTarget(k) == k = "a"

\* a leaf of a state tree: an array of one dtype and value, with or without
\* partitioning axes
LeafSet == [dtype : DTypes, val : LeafValues, axes : BOOLEAN]
Trees == UNION {[K -> LeafSet] : K \in SUBSET TreeKeys}

The(opt) == CHOOSE x \in opt : TRUE

\* x.astype(dtype) in _cast: the values of LeafValues are kept
CastLeaf(x, dtype) == IF x.dtype = dtype THEN x ELSE [x EXCEPT !.dtype = dtype]

\* _get_state_dict_for_save: state_dict['target'] = _cast(.., self._save_dtype)
StateForSave(tree) ==
  [k \in DOMAIN tree |->
     IF IsTarget(k) THEN CastLeaf(tree[k], save_dtype) ELSE tree[k]]

\* _write_array: a leaf without ts_spec goes into the msgpack as it is, a
\* leaf with one is written to the array store with the dtype of the array
WrittenLeaf(x) == [ts |-> x.axes, dtype |-> x.dtype, val |-> x.val]

\* the msgpack contents save writes: {'version': VERSION, 'optimizer': ...}
WrittenManifest(tree) ==
  [version |-> {VERSION},
   optimizer |-> [k \in DOMAIN tree |-> WrittenLeaf(StateForSave(tree)[k])]]

\* the checkpoint of a float32 state with both keys
PlainTree == [k \in TreeKeys |-> [dtype |-> "float32", val |-> 0, axes |-> TRUE]]

\* the steps all_steps(checkpoints_dir) finds
published == DOMAIN manifests

\* latest_step(checkpoints_dir): None when there is no step, else steps[-1]
latest_step ==
  IF published = {} THEN {}
  ELSE {CHOOSE s \in published : \A t \in published : t <= s}

\* `not step` for an Optional[int]
NotStep(opt) == opt = {} \/ opt = {0}

\* the paths restore is given: the empty string, the directory of a step
\* and the 'checkpoint' file in it
Paths == [kind : {"empty"}, step : {0}] \cup [kind : {"dir", "file"}, step : RestoreSteps]
StepArgs == {{}} \cup {{s} : s \in RestoreSteps}
PathArgs == {{}} \cup {{q} : q \in Paths}

\* gfile.isdir(ckpt_path), and gfile.exists of the manifest file
IsDir(q) == q.kind = "dir" /\ q.step \in published
ManifestExists(q) == q.kind \in {"dir", "file"} /\ q.step \in published

\* if gfile.isdir(ckpt_path): ckpt_path = join(ckpt_path, 'checkpoint')
\* if not gfile.exists(ckpt_path) or gfile.isdir(ckpt_path): raise ValueError
CheckPath(q) ==
  IF IsDir(q) \/ (q.kind = "file" /\ ManifestExists(q))
    THEN [error |-> "", step |-> {q.step}]
    ELSE [error |-> "Path is not a valid T5X checkpoint", step |-> {}]

\* mutant: the path is used when both are given
ResolveCheckpoint_PathFirst(step_arg, path_arg) ==
  IF path_arg # {} /\ The(path_arg).kind # "empty"
    THEN CheckPath(The(path_arg))
  ELSE LET st == IF step_arg = {} THEN latest_step ELSE step_arg
       IN IF step_arg = {} /\ NotStep(st)
            THEN [error |-> "No checkpoints found", step |-> {}]
            ELSE CheckPath([kind |-> "dir", step |-> The(st)])

\* the head of restore: the checkpoint that step and path resolve to
ResolveCheckpoint(step_arg, path_arg) ==
  IF step_arg # {} /\ path_arg # {}
    THEN [error |-> "At most one of step or path may be provided",
          step |-> {}]
  ELSE IF path_arg # {} /\ The(path_arg).kind # "empty"
    THEN CheckPath(The(path_arg))
  ELSE LET st == IF step_arg = {} THEN latest_step ELSE step_arg
       IN IF step_arg = {} /\ NotStep(st)
            THEN [error |-> "No checkpoints found", step |-> {}]
            ELSE CheckPath([kind |-> "dir", step |-> The(st)])

\* version = ckpt_contents.get('version', 0)
VersionOf(m) == IF m.version = {} THEN 0 ELSE The(m.version)

\* mutant: every version is taken
Supported_Any(version) == TRUE

\* if version >= 2
Supported(version) == version >= MinVersion

\* _get_optimizer_state_dict: the state tree of the manifest after the
\* transformation functions, which are applied in order; a function is
\* modelled by its name and leaves the tree as it is
GetOptimizerStateDict(m, fns) ==
  IF Supported(VersionOf(m))
    THEN [error |-> "", state |-> m.optimizer, applied |-> fns]
    ELSE [error |-> "Checkpoint versions earlier than 2 are not supported",
          state |-> << >>, applied |-> << >>]

\* mutant: all the keys are read, with or without a fallback
RestoreKeys_All(ckpt_state, fallback) == TreeKeys

\* restore_parameter_infos: all of self._parameter_infos, or with a
\* fallback_state state_utils.intersect_state(self._parameter_infos,
\* ckpt_state_dict)
RestoreKeys(ckpt_state, fallback) ==
  IF fallback = {} THEN TreeKeys ELSE TreeKeys \cap DOMAIN ckpt_state

\* the bfloat16 whose 16 bits are those of the uint16 v: 0 for 0, and a
\* subnormal, written 2, for 1
BitsAsBfloat16(v) == IF v = 0 THEN 0 ELSE 2

\* _read_ts: a value of the msgpack is returned as it is; an array of the
\* store is read, and arr.view(jnp.bfloat16) is taken if its dtype is uint16
ReadTs(e) ==
  IF ~e.ts THEN [dtype |-> e.dtype, val |-> e.val]
  ELSE IF e.dtype = "uint16"
    THEN [dtype |-> "bfloat16", val |-> BitsAsBfloat16(e.val)]
  ELSE [dtype |-> e.dtype, val |-> e.val]

\* _read_state_from_tensorstore: the leaves are read and
\* state_dict['target'] is cast to self.restore_dtype if that is set
ReadState(ckpt_state, keys) ==
  [k \in keys |->
     IF restore_dtype # {} /\ IsTarget(k)
       THEN CastLeaf(ReadTs(ckpt_state[k]), The(restore_dtype))
       ELSE ReadTs(ckpt_state[k])]

\* the value of a key in a fallback_state
FallbackLeaf(k) == [dtype |-> "float32", val |-> 1]

\* state_utils.merge_state(state_dict, fallback_state): the keys of the
\* fallback that the state lacks are added to it
MergeState(state, fallback) ==
  IF fallback = {} THEN state
  ELSE [k \in (DOMAIN state) \cup The(fallback) |->
          IF k \in DOMAIN state THEN state[k] ELSE FallbackLeaf(k)]

\* the outcome of restore(step, path, state_transformation_fns, fallback_state)
RestoreOutcome(step_arg, path_arg, fns, fallback) ==
  LET failure(e, rd) ==
        [error |-> e, step_arg |-> step_arg, path_arg |-> path_arg,
         fns |-> fns, fallback |-> fallback, step |-> {}, read |-> rd,
         applied |-> << >>, state |-> << >>]
      res == ResolveCheckpoint(step_arg, path_arg)
  IN IF res.error # "" THEN failure(res.error, {})
     ELSE LET m == manifests[The(res.step)]
              got == GetOptimizerStateDict(m, fns)
          IN IF got.error # "" THEN failure(got.error, res.step)
             ELSE LET keys == RestoreKeys(got.state, fallback)
                  IN IF ~(keys \subseteq DOMAIN got.state)
                       THEN failure("from_state_dict: missing key", res.step)
                       ELSE [error |-> "", step_arg |-> step_arg,
                             path_arg |-> path_arg, fns |-> fns,
                             fallback |-> fallback, step |-> res.step,
                             read |-> res.step, applied |-> got.applied,
                             state |-> MergeState(ReadState(got.state, keys),
                                                  fallback)]

\* restore(...): a read-only operation on the directory
Restore(step_arg, path_arg, fns, fallback) ==
  /\ restored' = RestoreOutcome(step_arg, path_arg, fns, fallback)
  /\ UNCHANGED <<keep, pure, savevars, retention, manifests, saved,
                 save_dtype, restore_dtype>>

\* save(train_state) of step s into an empty directory, on one host
SaveTree(s, tree) ==
  /\ published = {}
  /\ manifests' = [t \in {s} |-> WrittenManifest(tree)]
  /\ saved' = [t \in {s} |-> tree]
  /\ UNCHANGED <<keep, pure, savevars, retention, save_dtype,
                 restore_dtype, restored>>

\* a directory in which the checkpoints of some steps were published, by
\* a Checkpointer with the default dtypes
InitResolve ==
  /\ NoSaving
  /\ gcs = FALSE
  /\ keep = 0
  /\ NoRetention
  /\ NoPure
  /\ save_dtype = "float32"
  /\ restore_dtype = {}
  /\ manifests \in {[s \in S |-> WrittenManifest(PlainTree)] :
                      S \in SUBSET RestoreSteps}
  /\ saved = [s \in DOMAIN manifests |-> PlainTree]
  /\ restored = NotRestored

NextResolve ==
  \E step_arg \in StepArgs, path_arg \in PathArgs :
    Restore(step_arg, path_arg, << >>, {})

SpecResolve == InitResolve /\ [][NextResolve]_vars

\* the dtypes a Checkpointer is constructed with
FloatDTypes == {"float32", "bfloat16"}

\* state_transformation_fns and fallback_state of a restore; a fallback is
\* the set of its keys
FnSeqs == {<< >>, <<"f">>, <<"f", "g">>}
Fallbacks == {{}} \cup {{F} : F \in SUBSET TreeKeys}

\* the manifest of a checkpoint of PlainTree that another writer left, with
\* its 'version' field
ForeignManifest(version) ==
  [version |-> version,
   optimizer |-> [k \in TreeKeys |-> WrittenLeaf(PlainTree[k])]]

\* a Checkpointer on a directory that is empty or holds one checkpoint of
\* another writer
InitRoundTrip ==
  /\ NoSaving
  /\ gcs = FALSE
  /\ keep = 0
  /\ NoRetention
  /\ NoPure
  /\ save_dtype \in FloatDTypes
  /\ restore_dtype \in {{}} \cup {{d} : d \in FloatDTypes}
  /\ manifests \in {<< >>} \cup
       {[s \in {t} |-> ForeignManifest(v)] :
          t \in CkptSteps, v \in {{}} \cup {{n} : n \in Versions}}
  /\ saved = << >>
  /\ restored = NotRestored

NextRoundTrip ==
  \/ \E s \in CkptSteps, tree \in Trees : SaveTree(s, tree)
  \/ \E fns \in FnSeqs, fallback \in Fallbacks : Restore({}, {}, fns, fallback)

SpecRoundTrip == InitRoundTrip /\ [][NextRoundTrip]_vars

\* ----------------------------------------------------- _choose_chunk_shape
Shapes == UNION {[1..r -> 1..MaxDim] : r \in 0..MaxRank}

\* mutant: every size up to the dimension is taken for a divisor
Divisors_All(size) == [i \in 1..size |-> i]

\* [i for i in range(1, size + 1) if size % i == 0]
Divisors(size) == SelectSeq([i \in 1..size |-> i], LAMBDA i : size % i = 0)

\* dim_factors[i][-1]
Last(list) == list[Len(list)]

\* the current chunk shape: [dim_factors[i][-1] for i in range(rank)]
CurrentChunkShape == [i \in DOMAIN dim_factors |-> Last(dim_factors[i])]

RECURSIVE Product(_)
Product(seq) == IF seq = << >> THEN 1 ELSE Head(seq) * Product(Tail(seq))

\* get_total_elements()
get_total_elements == Product(CurrentChunkShape)

\* mutant: the loop goes on while the target is reached but not undercut
MustReduce_Geq == get_total_elements >= target_elements

\* while get_total_elements() > target_elements
MustReduce == get_total_elements > target_elements

\* mutant: the first axis is taken, not the largest
dim_to_reduce_size_First ==
  IF dim_factors = << >> THEN 1 ELSE CurrentChunkShape[1]

\* the size the for loop leaves in dim_to_reduce_size: the largest current
\* size above 1, or 1
dim_to_reduce_size ==
  LET sizes == {CurrentChunkShape[i] : i \in DOMAIN dim_factors} \cup {1}
  IN CHOOSE m \in sizes : \A n \in sizes : n <= m

\* mutant: `size >= dim_to_reduce_size` keeps the last of the largest axes
dim_to_reduce_LastTie ==
  IF dim_to_reduce_size = 1 THEN 0
  ELSE CHOOSE i \in DOMAIN dim_factors :
         /\ CurrentChunkShape[i] = dim_to_reduce_size
         /\ \A j \in DOMAIN dim_factors :
              CurrentChunkShape[j] = dim_to_reduce_size => j <= i

\* the axis the for loop leaves in dim_to_reduce: the first of the axes of
\* that size (`size > dim_to_reduce_size` is strict); 0 stands for -1, no axis
dim_to_reduce ==
  IF dim_to_reduce_size = 1 THEN 0
  ELSE CHOOSE i \in DOMAIN dim_factors :
         /\ CurrentChunkShape[i] = dim_to_reduce_size
         /\ \A j \in DOMAIN dim_factors :
              CurrentChunkShape[j] = dim_to_reduce_size => i <= j

\* dim_factors[dim_to_reduce].pop()
Pop(list) == SubSeq(list, 1, Len(list) - 1)

\* the state at the head of the loop of a call
\* _choose_chunk_shape(shape, target)
Called(shape, target) ==
  /\ write_shape = shape
  /\ target_elements = target
  /\ dim_factors = [i \in DOMAIN shape |-> Divisors(shape[i])]
  /\ cpc = "loop"
  /\ chunk_shape = << >>

\* one iteration of `while get_total_elements() > target_elements`
ReduceLargest ==
  /\ cpc = "loop"
  /\ MustReduce
  /\ IF dim_to_reduce_size > 1
       THEN /\ dim_factors' = [dim_factors EXCEPT
                                 ![dim_to_reduce] = Pop(dim_factors[dim_to_reduce])]
            /\ UNCHANGED cpc
       ELSE /\ cpc' = "assert_failed"
            /\ UNCHANGED dim_factors
  /\ UNCHANGED <<keep, savevars, retention, restoring, tspaths, migrating, metricrun, listing,
                 write_shape,
                 target_elements, chunk_shape>>

\* the loop ends: return [dim_factors[i][-1] for i in range(rank)]
ReturnChunkShape ==
  /\ cpc = "loop"
  /\ ~MustReduce
  /\ chunk_shape' = CurrentChunkShape
  /\ cpc' = "returned"
  /\ UNCHANGED <<keep, savevars, retention, restoring, tspaths, migrating, metricrun, listing,
                 write_shape,
                 target_elements, dim_factors>>

InitChunk ==
  /\ NoSaving
  /\ gcs = FALSE
  /\ keep = 0
  /\ NoRetention
  /\ NoRestoring
  /\ NoTsPaths
  /\ NoMigrating
  /\ NoMetricRun
  /\ NoListing
  /\ \E shape \in Shapes, target \in 1..MaxTarget : Called(shape, target)

NextChunk == ReduceLargest \/ ReturnChunkShape

SpecChunk == InitChunk /\ [][NextChunk]_vars

\* the scheduler runs the call: no step of the loop waits on anything
SpecChunkLive == SpecChunk /\ WF_vars(NextChunk)

\* ------------------------------------------------------------ storage specs
\* A path is absolute or relative and has components; a checkpoint
\* directory is a local path or gs://<bucket>/<path>.
DummyBucket == "t5x-dummy-bucket"
Drivers == {"file", "gfile", "gcs", "memory"}
ArrayShapes == {<<1>>, <<2>>}

\* name.replace('/', '.'), the relative path of the array of a leaf
RelPaths == {[abs |-> FALSE, parts |-> <<"w">>]}
OptPaths == {{}} \cup {{q} : q \in RelPaths}

Metadatas == [shape : ArrayShapes, dtype : FloatDTypes]

\* the dicts of storage specs: 'kvstore' with its driver and, possibly, a
\* path and a bucket; possibly a top-level 'path'; 'metadata'
TsSpecs ==
  [kvstore : [driver : Drivers, path : OptPaths, bucket : {{}, {DummyBucket}}],
   path : OptPaths,
   metadata : Metadatas]

\* 'ckpts/checkpoint_1', '/ckpts/checkpoint_1', 'gs://bkt/ckpts/checkpoint_1'
CkptDirs ==
  {[gs |-> FALSE, bucket |-> "", dir |-> [abs |-> a, parts |-> <<"ckpts">>]] :
     a \in BOOLEAN}
  \cup {[gs |-> TRUE, bucket |-> "bkt",
         dir |-> [abs |-> FALSE, parts |-> <<"ckpts">>]]}

\* mutant: the two strings are concatenated
Join_Concat(a, b) == [abs |-> a.abs, parts |-> a.parts \o b.parts]

\* os.path.join(a, b): an absolute b discards a
Join(a, b) == IF b.abs THEN b ELSE [abs |-> a.abs, parts |-> a.parts \o b.parts]

\* re.fullmatch('^gs://([^/]*)/(.*)$', ckpt_dir) is not None
GsMatch(root) == root.gs

\* _update_ts_path_from_relative_to_absolute(ckpt_dir, ts_spec_dict): the
\* exception raised and the dict as the call leaves it
UpdateTsPath(root, d) ==
  IF GsMatch(root) /\ d.kvstore.driver # "gcs"
    THEN [error |-> "Incorrect TensorStore Spec. Expects kvstore driver to be gcs",
          dict |-> d]
  ELSE LET d1 == IF GsMatch(root)
                   THEN [d EXCEPT !.kvstore.bucket = {root.bucket}]
                   ELSE d
       IN IF d1.kvstore.path # {}
            THEN [error |-> "",
                  dict |-> [d1 EXCEPT !.kvstore.path =
                                        {Join(root.dir, The(d1.kvstore.path))}]]
          ELSE IF d1.path # {}
            THEN [error |-> "",
                  dict |-> [d1 EXCEPT !.path = {Join(root.dir, The(d1.path))}]]
          ELSE [error |-> "Incorrect TensorStore Spec. Expects path to be a key",
                dict |-> d1]

\* _get_param_info: the spec of a leaf with partitioning axes, for a
\* Checkpointer on a gs:// directory or on a local one
ParamSpec(root, metadata, q) ==
  IF root.gs
    THEN [kvstore |-> [driver |-> "gcs", path |-> {}, bucket |-> {DummyBucket}],
          path |-> {q}, metadata |-> metadata]
    ELSE [kvstore |-> [driver |-> "file", path |-> {q}, bucket |-> {}],
          path |-> {}, metadata |-> metadata]

ParamSpecs(root) == {ParamSpec(root, md, q) : md \in Metadatas, q \in RelPaths}

\* mutant: the resolved dict is returned for the manifest
WrittenEntry_Resolved(param_spec, tmp_ts_spec_dict) == tmp_ts_spec_dict

\* return param_info.ts_spec
WrittenEntry(param_spec, tmp_ts_spec_dict) == param_spec

\* mutant: the shapes are not compared
ShapeMismatch_Never(shape, d) == FALSE

\* param_info.shape is not None and
\* tuple(tmp_ts_spec_dict['metadata']['shape']) != param_info.shape
ShapeMismatch(shape, d) == shape # {} /\ d.metadata.shape # The(shape)

\* one call of _update_ts_path_from_relative_to_absolute on the dict, which
\* it updates in place
ApplyUpdateTsPath ==
  /\ tpc \in {"fresh", "once"}
  /\ ts_given \in TsSpecs
  /\ ts_error = ""
  /\ LET r == UpdateTsPath(ckpt_dir, ts_spec_dict)
     IN /\ ts_spec_dict' = r.dict
        /\ ts_error' = r.error
        /\ ts_once' = IF tpc = "fresh" THEN r.dict ELSE ts_once
  /\ tpc' = IF tpc = "fresh" THEN "once" ELSE "twice"
  /\ UNCHANGED <<keep, savevars, retention, restoring, chunking, migrating, metricrun, listing,
                 ckpt_dir, ts_given, has_param_info, info_shape, opened,
                 manifest_entry, acquired, read_value>>

\* the array the array store returns for a spec it has opened
StoredArray == [array |-> 1]

\* a subtree of the checkpoint: neither an array nor a ts.Spec
Subtree == [subtree |-> <<Inline>>]

\* what _read_ts and _write_array are handed besides storage specs
Entries == TsSpecs \cup {Inline, Subtree}

\* _write_array of a leaf on a host whose replica_id is 0.  Without
\* param_info, or without a ts_spec in it, the value is returned for the
\* msgpack file; otherwise the bytes are awaited and the spec is resolved in
\* tmp_ts_spec_dict = param_info.ts_spec.to_json()
WriteArray ==
  /\ tpc = "fresh"
  /\ IF ~has_param_info \/ ts_given \notin TsSpecs
       THEN /\ manifest_entry' = {Inline}
            /\ UNCHANGED <<ts_spec_dict, ts_error, opened, acquired>>
       ELSE /\ ts_given \in ParamSpecs(ckpt_dir)
            /\ acquired' = TRUE
            /\ LET r == UpdateTsPath(ckpt_dir, ts_given)
               IN /\ ts_spec_dict' = r.dict
                  /\ ts_error' = r.error
                  /\ opened' = IF r.error = "" THEN {r.dict} ELSE {}
                  /\ manifest_entry' = IF r.error = ""
                                         THEN {WrittenEntry(ts_given, r.dict)}
                                         ELSE {}
  /\ tpc' = "written"
  /\ UNCHANGED <<keep, savevars, retention, restoring, chunking, migrating, metricrun, listing,
                 ckpt_dir, ts_given, has_param_info, info_shape, ts_once,
                 read_value>>

\* param_info.shape is evaluated whether or not param_info is None
ReadsShapeOfNone == ~has_param_info

\* _read_ts of an entry of the checkpoint.  An array (with param_info or
\* without) and anything else that is not a ts.Spec are returned; a ts.Spec
\* is resolved, its shape is compared with param_info.shape, and the array
\* is opened and read
ReadTsArray ==
  /\ tpc = "fresh"
  /\ IF ts_given \notin TsSpecs
       THEN /\ read_value' = {ts_given}
            /\ UNCHANGED <<ts_spec_dict, ts_error, opened>>
       ELSE LET r == UpdateTsPath(ckpt_dir, ts_given)
            IN /\ ts_spec_dict' = r.dict
               /\ IF r.error # ""
                    THEN ts_error' = r.error /\ opened' = {} /\ read_value' = {}
                  ELSE IF ReadsShapeOfNone
                    THEN /\ ts_error' = "AttributeError: 'NoneType' object has no attribute 'shape'"
                         /\ opened' = {}
                         /\ read_value' = {}
                  ELSE IF ShapeMismatch(info_shape, r.dict)
                    THEN /\ ts_error' = "Shape in checkpoint does not match expected"
                         /\ opened' = {}
                         /\ read_value' = {}
                  ELSE /\ ts_error' = ""
                       /\ opened' = {r.dict}
                       /\ read_value' = {StoredArray}
  /\ tpc' = "read"
  /\ UNCHANGED <<keep, savevars, retention, restoring, chunking, migrating, metricrun, listing,
                 ckpt_dir, ts_given, has_param_info, info_shape, ts_once,
                 manifest_entry, acquired>>

InitTsPath ==
  /\ NoSaving
  /\ gcs = FALSE
  /\ keep = 0
  /\ NoRetention
  /\ NoRestoring
  /\ NoChunking
  /\ NoMigrating
  /\ NoMetricRun
  /\ NoListing
  /\ ckpt_dir \in CkptDirs
  /\ ts_given \in Entries
  /\ has_param_info \in BOOLEAN
  /\ info_shape \in {{}} \cup {{sh} : sh \in ArrayShapes}
  /\ ~has_param_info => info_shape = {}
  /\ ts_spec_dict = ts_given
  /\ ts_once = ts_given
  /\ tpc = "fresh"
  /\ ts_error = ""
  /\ opened = {}
  /\ manifest_entry = {}
  /\ acquired = FALSE
  /\ read_value = {}

NextTsPath == ApplyUpdateTsPath \/ WriteArray \/ ReadTsArray

SpecTsPath == InitTsPath /\ [][NextTsPath]_vars

\* -------------------------------------------------------- backend migration
\* The contents of a manifest: per key an inline value or the dict of a
\* storage spec.  jax.tree_map visits the keys in sorted order and the
\* functions update the dicts in place.
ManifestKeys == <<"a", "b">>
ManifestLeaves == {Inline} \cup TsSpecs
ManifestTrees == [{"a", "b"} -> ManifestLeaves]

\* isinstance(arr_or_ts_spec_dict, dict)
IsTsSpecDict(x) == "kvstore" \in DOMAIN x

\* mutant: a driver that is neither file nor gfile is left as it is
GfileToGcsDriver_Lenient(x) ==
  IF ~IsTsSpecDict(x) THEN [error |-> "", value |-> x]
  ELSE IF x.kvstore.driver \in {"file", "gfile"}
    THEN IF x.kvstore.path = {}
           THEN [error |-> "KeyError: 'path'", value |-> x]
           ELSE [error |-> "",
                 value |-> [x EXCEPT
                              !.path = x.kvstore.path,
                              !.kvstore = [driver |-> "gcs", path |-> {},
                                           bucket |-> {DummyBucket}]]]
  ELSE [error |-> "", value |-> x]

\* _gfile_to_gcs_driver: the exception raised and the value returned
GfileToGcsDriver(x) ==
  IF ~IsTsSpecDict(x) THEN [error |-> "", value |-> x]
  ELSE IF x.kvstore.driver \in {"file", "gfile"}
    THEN IF x.kvstore.path = {}
           THEN [error |-> "KeyError: 'path'", value |-> x]
           ELSE [error |-> "",
                 value |-> [x EXCEPT
                              !.path = x.kvstore.path,
                              !.kvstore = [driver |-> "gcs", path |-> {},
                                           bucket |-> {DummyBucket}]]]
  ELSE IF x.kvstore.driver # "gcs"
    THEN [error |-> "Unsupported TensoreStore driver", value |-> x]
  ELSE [error |-> "", value |-> x]

\* mutant: the top-level path is moved into the kvstore for the local
\* drivers too
GcsToFileDriver_AlwaysMoves(x) ==
  IF ~IsTsSpecDict(x) THEN [error |-> "", value |-> x]
  ELSE IF x.kvstore.driver \in {"gcs", "gfile", "file"}
    THEN IF x.path = {}
           THEN [error |-> "KeyError: 'path'", value |-> x]
           ELSE [error |-> "",
                 value |-> [x EXCEPT
                              !.path = {},
                              !.kvstore = [driver |-> "file", path |-> x.path,
                                           bucket |-> {}]]]
  ELSE [error |-> "Unsupported TensoreStore driver", value |-> x]

\* _gcs_to_file_driver: the exception raised and the value returned
GcsToFileDriver(x) ==
  IF ~IsTsSpecDict(x) THEN [error |-> "", value |-> x]
  ELSE IF x.kvstore.driver = "gcs"
    THEN IF x.path = {}
           THEN [error |-> "KeyError: 'path'", value |-> x]
           ELSE [error |-> "",
                 value |-> [x EXCEPT
                              !.path = {},
                              !.kvstore = [driver |-> "file", path |-> x.path,
                                           bucket |-> {}]]]
  ELSE IF x.kvstore.driver = "gfile"
    THEN [error |-> "", value |-> [x EXCEPT !.kvstore.driver = "file"]]
  ELSE IF x.kvstore.driver = "file"
    THEN [error |-> "", value |-> x]
  ELSE [error |-> "Unsupported TensoreStore driver", value |-> x]

\* jax.tree_map(fn, ckpt_contents, is_leaf=_is_leaf) over the keys that are
\* left: it stops at the first exception, with the leaves before it updated
RECURSIVE MapLeaves(_, _, _)
MapLeaves(to_gcs, tree, keys) ==
  IF keys = << >> THEN [error |-> "", tree |-> tree]
  ELSE LET r == IF to_gcs THEN GfileToGcsDriver(tree[Head(keys)])
                          ELSE GcsToFileDriver(tree[Head(keys)])
       IN IF r.error # ""
            THEN [error |-> r.error, tree |-> tree]
            ELSE MapLeaves(to_gcs, [tree EXCEPT ![Head(keys)] = r.value],
                           Tail(keys))

\* _maybe_update_ts_from_file_to_gcs and _maybe_update_ts_from_gcs_to_file
UpdateTsFromFileToGcs(tree) == MapLeaves(TRUE, tree, ManifestKeys)
UpdateTsFromGcsToFile(tree) == MapLeaves(FALSE, tree, ManifestKeys)

\* mutant: the directions are exchanged
MigrateContents_Swapped(is_gs, tree) ==
  IF is_gs THEN UpdateTsFromGcsToFile(tree) ELSE UpdateTsFromFileToGcs(tree)

\* restore: if ckpt_dir.startswith('gs://') the contents go from file to
\* gcs, else from gcs to file
MigrateContents(is_gs, tree) ==
  IF is_gs THEN UpdateTsFromFileToGcs(tree) ELSE UpdateTsFromGcsToFile(tree)

\* one migration of the contents, in place
Migrate ==
  /\ mpc \in {"fresh", "once"}
  /\ mig_error = ""
  /\ LET r == MigrateContents(root_is_gs, ckpt_contents)
     IN /\ ckpt_contents' = r.tree
        /\ mig_error' = r.error
        /\ mig_once' = IF mpc = "fresh" THEN r.tree ELSE mig_once
  /\ mpc' = IF mpc = "fresh" THEN "once" ELSE "twice"
  /\ UNCHANGED <<keep, savevars, retention, restoring, chunking, tspaths, metricrun, listing,
                 root_is_gs, mig_given>>

InitMigrate ==
  /\ NoSaving
  /\ gcs = FALSE
  /\ keep = 0
  /\ NoRetention
  /\ NoRestoring
  /\ NoChunking
  /\ NoTsPaths
  /\ NoMetricRun
  /\ NoListing
  /\ root_is_gs \in BOOLEAN
  /\ mig_given \in ManifestTrees
  /\ ckpt_contents = mig_given
  /\ mig_once = mig_given
  /\ mpc = "fresh"
  /\ mig_error = ""

NextMigrate == Migrate

SpecMigrate == InitMigrate /\ [][NextMigrate]_vars

\* -------------------------------------------------- metric run and tag
\* SaveBestCheckpointer._populate_metrics_for_steps and
\* _try_fill_metric_run_and_tag_names.  A name with '/' is the sequence of
\* its components: 'train/eval' is <<"train", "eval">>; None is << >>.
RunNames == {<<"train">>, <<"train", "eval">>, <<"eval">>}
MetricNames == {<<"train", "eval", "loss">>, <<"eval", "loss">>, <<"loss">>}
Tags == {<<"loss">>, <<"eval", "loss">>}
EventSteps == {1, 2}

\* existing_steps of a pruning that looks the metrics up: more than keep + 1
\* steps, with or without the logged step 2
StepSets == {{1, 2}, {1, 3}}

\* an event of a summary file; its value is its position in summaries, so
\* that no two events carry the same value
Events == [run : RunNames, tag : Tags, step : EventSteps]

\* m = name.split('/'); ['/'.join(m[:i]) for i in range(1, len(m))]
possible_run_names(name) == [i \in 1..(Len(name) - 1) |-> SubSeq(name, 1, i)]

\* the inner loop of _try_fill_metric_run_and_tag_names for one key:
\* metric_run = possible_run_name, metric_tag = name[len(metric_run) + 1:]
MatchKey(name, key, found) ==
  IF \E i \in DOMAIN possible_run_names(name) : possible_run_names(name)[i] = key
    THEN [run |-> key, tag |-> SubSeq(name, Len(key) + 1, Len(name))]
    ELSE found

\* for key in run_keys: the match of a later key replaces that of an earlier
RECURSIVE MatchKeys(_, _, _)
MatchKeys(name, run_keys, found) ==
  IF run_keys = << >> THEN found
  ELSE MatchKeys(name, Tail(run_keys), MatchKey(name, Head(run_keys), found))

\* _try_fill_metric_run_and_tag_names(run_keys) with the cached names in
\* cache: whether it matched, and the cached names after it
TryFill(name, run_keys, cache) ==
  LET found == MatchKeys(name, run_keys, [run |-> << >>, tag |-> << >>])
  IN IF found.run # << >> /\ found.tag # << >>
       THEN [ok |-> TRUE, cache |-> found]
       ELSE [ok |-> FALSE, cache |-> cache]

\* mutant: the names are looked up again although they are cached
NeedsFill_Always(cache) == TRUE

\* not self._metric_run
NeedsFill(cache) == cache.run = << >>

\* for event in loader.Load(): the events of the run, in the order they were
\* written; events of steps outside steps or of another tag are skipped, and
\* a later event of a step replaces the earlier one
LoadEvents(rpath, tag, steps, metrics) ==
  LET Hits(st) == {i \in DOMAIN summaries :
                     /\ summaries[i].run = rpath
                     /\ summaries[i].step = st
                     /\ summaries[i].tag = tag}
      updated == {st \in steps : Hits(st) # {}}
  IN [st \in (DOMAIN metrics) \cup updated |->
        IF st \in updated
          THEN CHOOSE i \in Hits(st) : \A j \in Hits(st) : j <= i
          ELSE metrics[st]]

\* for subdir in GetLogdirSubdirectories(checkpoints_dir), from the
\* subdirectories in order on
RECURSIVE ScanSubdirs(_, _, _, _, _)
ScanSubdirs(name, order, steps, cache, metrics) ==
  IF order = << >> THEN [cache |-> cache, metrics |-> metrics]
  ELSE LET rpath == Head(order)
           filled == IF NeedsFill(cache)
                       THEN TryFill(name, <<rpath>>, cache)
                       ELSE [ok |-> TRUE, cache |-> cache]
           skip == (NeedsFill(cache) /\ ~filled.ok) \/ filled.cache.run # rpath
       IN ScanSubdirs(name, Tail(order), steps, filled.cache,
                      IF skip THEN metrics
                      ELSE LoadEvents(rpath, filled.cache.tag, steps, metrics))

\* the orders in which the subdirectories of a set may be listed
Orders(S) ==
  {o \in [1..Cardinality(S) -> S] : \A i, j \in DOMAIN o : o[i] = o[j] => i = j}

\* a trainer or an evaluation starts to log under a new run
AddLogRun(r) ==
  /\ r \notin logdirs
  /\ logdirs' = logdirs \cup {r}
  /\ scanned' = NotScanned
  /\ UNCHANGED <<keep, savevars, retention, restoring, chunking, tspaths, migrating, listing,
                 metric_name_to_monitor, summaries, metric_run, metric_tag,
                 collected>>

\* an event is appended to the summaries of a run
WriteSummary(e) ==
  /\ e.run \in logdirs
  /\ Len(summaries) < MaxEvents
  /\ summaries' = Append(summaries, e)
  /\ scanned' = NotScanned
  /\ UNCHANGED <<keep, savevars, retention, restoring, chunking, tspaths, migrating, listing,
                 metric_name_to_monitor, logdirs, metric_run, metric_tag,
                 collected>>

\* metrics_by_step = self._populate_metrics_for_steps(existing_steps), with
\* the subdirectories listed in order
PopulateMetricsForSteps(order, steps) ==
  /\ LET r == ScanSubdirs(metric_name_to_monitor, order, steps,
                          [run |-> metric_run, tag |-> metric_tag], << >>)
     IN /\ metric_run' = r.cache.run
        /\ metric_tag' = r.cache.tag
        /\ collected' = r.metrics
  /\ scanned' = [called |-> TRUE, order |-> order, steps |-> steps]
  /\ UNCHANGED <<keep, savevars, retention, restoring, chunking, tspaths, migrating, listing,
                 metric_name_to_monitor, logdirs, summaries>>

InitMetricRun ==
  /\ NoSaving
  /\ gcs = FALSE
  /\ keep = 0
  /\ NoRetention
  /\ NoRestoring
  /\ NoChunking
  /\ NoTsPaths
  /\ NoMigrating
  /\ NoListing
  /\ metric_name_to_monitor \in MetricNames
  /\ logdirs = {}
  /\ summaries = << >>
  /\ metric_run = << >>
  /\ metric_tag = << >>
  /\ collected = << >>
  /\ scanned = NotScanned

NextMetricRun ==
  \/ \E r \in RunNames : AddLogRun(r)
  \/ \E e \in Events : WriteSummary(e)
  \/ \E order \in Orders(logdirs), steps \in StepSets :
       PopulateMetricsForSteps(order, steps)

SpecMetricRun == InitMetricRun /\ [][NextMetricRun]_vars


\* ================================================================== claims
DesignatedOnly == {"makedirs", "manifest", "finalize", "remove_old"}

\* the files a complete checkpoint directory holds
StagedContents ==
  {ManifestFile}
    \cup UNION {{ArrayFile(l, r) : r \in Regions(l)} : l \in PartLeaves}
    \cup {DatasetFile(h) : h \in {g \in Hosts : should_write_dataset_ckpt(g)}}

\* the files of the published directories
FinalFiles == {e \in files : e[1].tmp = Final}

\* the file f of step s lies in the staging or in the final directory
Written(s, f) == \E d \in DirNames : d.step = s /\ <<d, f>> \in files

RECURSIVE SumBytes(_)
SumBytes(L) ==
  IF L = {} THEN 0
  ELSE LET l == CHOOSE x \in L : TRUE
       IN ClampedBytes(l) + SumBytes(L \ {l})

\* the bytes held by the in-flight writes of the host
HeldBytes(h) ==
  SumBytes({l \in PartLeaves : task[h][l] \in {"holding", "written"}})

\* C1: when a host finds the final directory of its step, it returns from save
\* and the step leaves the directories, the files, the manifests and the
\* published steps as they were: nothing is staged, written or pruned.
C1_SaveOfExistingStepIsNoOp ==
  [][\A h \in Hosts :
       (pc[h] = "exists" /\ Exists(final_dir(step[h])) /\ pc'[h] # "exists")
         => /\ pc'[h] = "idle"
            /\ dirs' = dirs
            /\ files' = files
            /\ msgpack' = msgpack
            /\ wrote' = wrote
            /\ promoted' = promoted]_vars

\* every host has returned from a save that found its final directory
C1_Witness ==
  /\ AllAt("idle")
  /\ reached = NoReached
  /\ clock = MaxTime
  /\ \E s \in Steps : s \in promoted /\ <<final_dir(s), ManifestFile>> \in files

\* C2: a host that has taken bytes for a write or has written to the array
\* store does so after every host arrived at the make_dir barrier, the
\* designated host having created the staging directory before it arrived.
C2_NoWriteBeforeStagingBarrier ==
  \A h \in Hosts, l \in Leaves :
    (<<h, l>> \in wrote \/ (pc[h] = "write" /\ task[h][l] \in {"holding", "written"}))
      => /\ reached["make_dir"] = Hosts
         /\ pc[h] = "write" => TmpDir(h) \in dirs

\* a host has written a leaf into the staging directory
C2_Witness ==
  \E h \in Hosts \ {Designated} :
    /\ pc[h] = "write"
    /\ <<h, "b">> \in wrote
    /\ <<TmpDir(h), ArrayFile("b", h)>> \in files

\* C3: wherever a manifest file lies, it names a ts_spec for every partitioned
\* leaf, every region of these leaves and every dataset checkpoint has been
\* written, and every host has arrived at the barriers that follow the writes.
C3_ManifestAfterAllWrites ==
  \A d \in DirNames :
    <<d, ManifestFile>> \in files
      => /\ \A l \in PartLeaves : msgpack[d][l] = "spec"
         /\ \A l \in PartLeaves :
              \A r \in Regions(l) : Written(d.step, ArrayFile(l, r))
         /\ \A h \in Hosts :
              should_write_dataset_ckpt(h) => Written(d.step, DatasetFile(h))
         /\ \A h \in Hosts :
              (pc[h] = "finalize" /\ d = TmpDir(h))
                => /\ reached["ts_write_complete"] = Hosts
                   /\ reached["write_complete"] = Hosts

\* the manifest has just been written into the staging directory
C3_Witness ==
  /\ pc[Designated] = "finalize"
  /\ <<TmpDir(Designated), ManifestFile>> \in files
  /\ <<TmpDir(Designated), ArrayFile("b", 1)>> \in files

\* C4: a final directory appears only by a step of the designated host that
\* is publishing its staging directory, with the manifest already in that
\* staging directory and every host past the write_complete barrier; and
\* every directory whose publication has finished holds a manifest.
C4_PromotedAfterManifest ==
  /\ [](\A s \in promoted : <<final_dir(s), ManifestFile>> \in files)
  /\ [][\A s \in Steps :
          (~Exists(final_dir(s)) /\ Exists(final_dir(s))')
            => /\ pc[Designated] = "finalize"
               /\ step[Designated] = s
               /\ Written(s, ManifestFile)
               /\ reached["write_complete"] = Hosts]_vars

\* the designated host has published a staging directory
C4_Witness ==
  /\ pc[Designated] = "remove_old"
  /\ step[Designated] \in promoted
  /\ <<FinalDir(Designated), ManifestFile>> \in files

\* C5: a final directory that exists holds everything that was staged.
C5_NeverPartiallyPromoted ==
  \A s \in Steps :
    Exists(final_dir(s)) => StagedContents \subseteq FilesOf(final_dir(s))

\* C6: a host writes a partitioned leaf exactly if its replica id is 0; a host
\* of another replica id takes no bytes and returns the ts_spec; when the
\* hosts have finished writing, every region was written by exactly one host.
C6_OnlyReplicaZeroWrites ==
  \A l \in PartLeaves :
    /\ \A h \in Hosts :
         /\ <<h, l>> \in wrote => get_local_chunk_info(h, l).replica_id = 0
         /\ (get_local_chunk_info(h, l).replica_id # 0 /\ pc[h] \notin {"idle", "broadcast",
               "exists", "makedirs", "sync_make_dir"})
              => task[h][l] = "spec"
    /\ reached["ts_write_complete"] = Hosts
         => \A r \in Regions(l) :
              Cardinality({h \in Hosts : /\ <<h, l>> \in wrote
                                         /\ get_local_chunk_info(h, l).slice = r}) = 1

\* all hosts have finished writing: replica 0 wrote the replicated leaf and
\* the other replica returned its spec
C6_Witness ==
  /\ reached["ts_write_complete"] = Hosts
  /\ <<0, "c">> \in wrote
  /\ <<1, "c">> \notin wrote
  /\ pc[1] = "dataset"
  /\ task[1]["c"] = "spec"

\* C7: no host but the designated one is ever at the creation of the staging
\* directory, at the manifest, at the publication or at the pruning; and a
\* step that changes the directories, a manifest or a file of a published
\* directory is a step of the designated host at one of these places.
C7_OnlyDesignatedHostPublishes ==
  /\ [](\A h \in Hosts \ {Designated} : pc[h] \notin DesignatedOnly)
  /\ [][(dirs' # dirs \/ msgpack' # msgpack \/ FinalFiles' # FinalFiles)
          => /\ pc[Designated] \in DesignatedOnly
             /\ \A h \in Hosts \ {Designated} : pc'[h] = pc[h]]_vars

\* the other hosts have returned while the designated host is about to prune
\* a published step
C7_Witness ==
  /\ pc[Designated] = "remove_old"
  /\ \A h \in Hosts \ {Designated} : pc[h] = "idle"
  /\ StepsToRemove # {}

\* C8: a leaf larger than the budget, whose request is clamped to the whole
\* budget, can take its bytes once no other write of the host holds any.
C8_OversizedLeafAcquires ==
  \A h \in Hosts, l \in PartLeaves :
    (/\ pc[h] = "write"
     /\ task[h][l] = "new"
     /\ nbytes[l] > ConcurrentBytes
     /\ \A k \in PartLeaves \ {l} : task[h][k] \notin {"holding", "written"})
      => HasBytes(h, ClampedBytes(l))

\* C9: the available bytes stay within 0..concurrent_bytes and the bytes held
\* by the in-flight writes add up to concurrent_bytes - available.
C9_BytesAccounting ==
  \A h \in Hosts :
    /\ num_bytes[h] >= 0
    /\ num_bytes[h] <= ConcurrentBytes
    /\ HeldBytes(h) = ConcurrentBytes - num_bytes[h]

\* two writes of a host hold bytes at once
C9_Witness ==
  \E h \in Hosts :
    /\ pc[h] = "write"
    /\ task[h]["b"] = "holding"
    /\ task[h]["c"] = "written"
    /\ num_bytes[h] < ConcurrentBytes - 1

\* C10: a save never stages under the name of the staging directory of an
\* attempt in which an exception was raised.
C10_RetryStagesUnderNewName ==
  \A h \in Hosts :
    pc[h] \in {"makedirs", "sync_make_dir"} => TmpDir(h) \notin failed

\* the staging directories
StagingDirs == {d \in DirNames : d.tmp # Final}

\* something of directory d is gone after the step
Shrinks(d) ==
  \/ d \in dirs /\ d \notin dirs'
  \/ \E f \in FileNames : <<d, f>> \in files /\ <<d, f>> \notin files'

\* C11: a step that takes a staging directory or one of its files away is a
\* step of the publication of that very directory, which puts what it takes
\* under the final name; and a step that takes a final directory or one of
\* its files away is the pruning, acting on a published step that the
\* retention policy selects.
C11_StagingNeverDeleted ==
  [][/\ \A d \in StagingDirs :
          Shrinks(d)
            => /\ pc[Designated] = "finalize"
               /\ d = TmpDir(Designated)
               /\ (d \in dirs /\ d \notin dirs') => FinalDir(Designated) \in dirs'
               /\ \A f \in FileNames :
                    (<<d, f>> \in files /\ <<d, f>> \notin files')
                      => <<FinalDir(Designated), f>> \in files'
     /\ \A s \in Steps :
          Shrinks(final_dir(s))
            => /\ pc[Designated] = "remove_old"
               /\ s \in all_steps
               /\ s \in StepsToRemove]_vars

\* the staging directory of a failed save of a step is still there, with what
\* was written to it, after the step was saved again, published and pruned
C11_Witness ==
  \E d \in failed :
    /\ FilesOf(d) # {}
    /\ d \in dirs
    /\ ~Exists(final_dir(d.step))
    /\ \E s \in promoted : s # d.step
    /\ AllAt("idle")

\* the published checkpoints before the pruning that has just ended
Before == ckpts \cup removed

\* the most recent checkpoint before the pruning
Latest == CHOOSE s \in Before : \A t \in Before : t <= s

\* step s has a value of the monitored metric in the summary files
Logged(s) == s \in DOMAIN events

\* C12: the recency pruning of a checkpointer with keep = k leaves k + m
\* checkpoints (m > 0) with the k newest and deletes the m oldest, and it
\* deletes nothing when there are at most k (or no keep is configured).
C12_RecencyDeletesOldest ==
  (rpc = "pruned" /\ ~save_best)
    => IF keep > 0 /\ Cardinality(Before) > keep
         THEN /\ Cardinality(removed) = Cardinality(Before) - keep
              /\ Cardinality(ckpts) = keep
              /\ \A a \in removed, b \in ckpts : a < b
         ELSE removed = {}

\* the recency pruning has deleted two checkpoints at once
C12_Witness ==
  /\ rpc = "pruned"
  /\ ~save_best
  /\ keep = 1
  /\ Cardinality(removed) >= 2
  /\ Cardinality(ckpts) = 1

\* C13: the metric-based pruning leaves the most recent checkpoint in place.
C13_BestKeepsLatest ==
  (rpc = "pruned" /\ save_best /\ Before # {}) => Latest \in ckpts

\* the metric-based pruning has deleted a checkpoint although the latest one
\* has no value and checkpoints without values are the first to go
C13_Witness ==
  /\ rpc = "pruned"
  /\ save_best
  /\ ~keep_checkpoints_without_metrics
  /\ removed # {}
  /\ ~Logged(Latest)
  /\ \A s \in Before \ {Latest} : Logged(s)

\* the checkpoints the metric-based pruning ranks: all but the latest, and
\* only the logged ones when checkpoints without metrics are kept
Ranked == {s \in Before \ {Latest} : keep_checkpoints_without_metrics => Logged(s)}

\* C14: when the metric-based pruning deletes, it retains keep of the ranked
\* checkpoints, no deleted checkpoint has a better value than a retained
\* ranked one (higher in mode max, lower in mode min), a checkpoint without
\* value being worse than any with one; and for the metrics {1: low,
\* 2: high, 3: none}, keep = 1, mode max, it deletes step 1 only.
C14_BestRanksByMetric ==
  (rpc = "pruned" /\ save_best)
    => /\ removed # {}
         => /\ removed \subseteq Ranked
            /\ Cardinality(Ranked \ removed) = keep
            /\ \A d \in removed, k \in Ranked \ removed :
                 /\ (Logged(d) /\ Logged(k) /\ metric_mode = "max")
                      => events[d] <= events[k]
                 /\ (Logged(d) /\ Logged(k) /\ metric_mode = "min")
                      => events[d] >= events[k]
                 /\ Logged(d) => Logged(k)
       /\ (/\ Before = {1, 2, 3}
           /\ keep = 1
           /\ metric_mode = "max"
           /\ Logged(1) /\ Logged(2) /\ ~Logged(3)
           /\ events[1] < events[2])
            => (ckpts = {2, 3} /\ removed = {1})

\* the example of the claim: steps 1, 2, 3 with a low, a high and no value
C14_Witness ==
  /\ rpc = "pruned"
  /\ save_best
  /\ keep = 1
  /\ metric_mode = "max"
  /\ ckpts = {2, 3}
  /\ removed = {1}
  /\ Logged(1) /\ Logged(2) /\ ~Logged(3)
  /\ events[1] = 0 /\ events[2] = MaxMetric

\* C15: with keep_checkpoints_without_metrics, the metric-based pruning
\* deletes only checkpoints that have a value, and deletes nothing unless
\* more than keep of the checkpoints other than the latest have one.
C15_BestKeepsUnlogged ==
  (rpc = "pruned" /\ save_best /\ keep_checkpoints_without_metrics)
    => /\ \A d \in removed : Logged(d)
       /\ Cardinality({s \in Before \ {Latest} : Logged(s)}) <= keep
            => removed = {}

\* a checkpoint without value, older than a deleted one, has been left
C15_Witness ==
  /\ rpc = "pruned"
  /\ save_best
  /\ keep_checkpoints_without_metrics
  /\ \E d \in removed, k \in ckpts : k < d /\ ~Logged(k)


\* restore was called with neither a step nor a path
NeitherGiven ==
  /\ restored.error # "not called"
  /\ restored.step_arg = {}
  /\ restored.path_arg = {}

\* restore was called with a step and a path
BothGiven == restored.step_arg # {} /\ restored.path_arg # {}

\* C18: with neither a step nor a path, restore restores the greatest
\* published step, and fails with "No checkpoints found" exactly when no
\* step is published.
C18_DefaultIsLatestStep ==
  NeitherGiven =>
    IF published = {}
      THEN restored.error = "No checkpoints found"
      ELSE restored.error = "" /\ restored.step = latest_step

\* C19: restore with both a step and a path fails with the at-most-one error
\* before any file is read, and leaves the directory and the files as they
\* were.
C19_BothGivenFailsEarly ==
  [][BothGiven' =>
       /\ restored'.error = "At most one of step or path may be provided"
       /\ restored'.read = {}
       /\ restored'.state = << >>
       /\ UNCHANGED <<manifests, dirs, files, msgpack>>]_vars

\* both are given and each alone names a published checkpoint
C19_Witness ==
  /\ BothGiven
  /\ restored.step_arg \subseteq published
  /\ The(restored.path_arg).kind = "dir"
  /\ The(restored.path_arg).step \in published
  /\ restored.error = "At most one of step or path may be provided"
  /\ restored.read = {}


\* restore read the manifest of a checkpoint
ManifestRead == restored.error # "not called" /\ restored.read # {}

\* the manifest restore read
ReadManifest == manifests[The(restored.read)]

\* C20: a manifest whose version is below 2, a missing version counting as
\* 0, makes restore fail with the unsupported-version error and none of the
\* transformation functions is applied; a manifest of version 2 or more is
\* not refused for its version and all the functions are applied, in order.
C20_OldVersionsRefused ==
  ManifestRead =>
    IF VersionOf(ReadManifest) < 2
      THEN /\ restored.error =
                "Checkpoint versions earlier than 2 are not supported"
           /\ restored.applied = << >>
           /\ restored.state = << >>
      ELSE /\ restored.error #
                "Checkpoint versions earlier than 2 are not supported"
           /\ restored.error = "" => restored.applied = restored.fns

\* a manifest without version was refused although functions were given
C20_Witness ==
  /\ ManifestRead
  /\ ReadManifest.version = {}
  /\ restored.fns = <<"f", "g">>
  /\ restored.error = "Checkpoint versions earlier than 2 are not supported"
  /\ restored.applied = << >>


\* restore, given a fallback_state, got past the checks of the manifest
RestoredWithFallback ==
  /\ ManifestRead
  /\ restored.fallback # {}
  /\ Supported(VersionOf(ReadManifest))

\* the keys of the target structure that the checkpoint holds
KeysInBoth == TreeKeys \cap DOMAIN ReadManifest.optimizer

\* C17: restore with a fallback_state succeeds; the returned state has the
\* keys of the target structure that the checkpoint holds, each with the
\* value read from the checkpoint, and the other keys of the fallback, each
\* with the value of the fallback.
C17_FallbackFillsMissingKeys ==
  RestoredWithFallback =>
    /\ restored.error = ""
    /\ DOMAIN restored.state = KeysInBoth \cup The(restored.fallback)
    /\ \A k \in KeysInBoth :
         restored.state[k] = ReadState(ReadManifest.optimizer, {k})[k]
    /\ \A k \in The(restored.fallback) \ KeysInBoth :
         restored.state[k] = FallbackLeaf(k)

\* the checkpoint lacks "b", the fallback holds "a" and "b": "a" comes from
\* the checkpoint and "b" from the fallback
C17_Witness ==
  /\ RestoredWithFallback
  /\ DOMAIN ReadManifest.optimizer = {"a"}
  /\ restored.fallback = {{"a", "b"}}
  /\ restored.error = ""
  /\ restored.state["a"].val = 0
  /\ FallbackLeaf("a").val # 0
  /\ restored.state["b"] = FallbackLeaf("b")

\* restore() without functions and fallback gave the state of a checkpoint
\* that save wrote
RoundTrip ==
  /\ restored.error = ""
  /\ restored.fns = << >>
  /\ restored.fallback = {}
  /\ restored.step \subseteq DOMAIN saved

\* the dtype in which a leaf comes back: for a leaf of the target the
\* restore dtype, or the save dtype when no restore dtype is set
RoundTripDType(k, x) ==
  IF ~IsTarget(k) THEN x.dtype
  ELSE IF restore_dtype # {} THEN The(restore_dtype)
  ELSE save_dtype

\* C16: save followed by restore of that step, without transformation
\* functions and fallback state, gives every leaf with the value that was
\* saved; only the dtype of the leaves of the target differs, by the save
\* and restore casts.
C16_RoundTrip ==
  RoundTrip =>
    LET tree == saved[The(restored.step)]
    IN /\ DOMAIN restored.state = DOMAIN tree
       /\ \A k \in DOMAIN tree :
            /\ restored.state[k].val = tree[k].val
            /\ restored.state[k].dtype = RoundTripDType(k, tree[k])


\* C28: the chunk shape _choose_chunk_shape returns has the rank of the
\* write shape, each of its sizes divides the size of the write shape on its
\* axis, and the product of its sizes is at most target_elements.
C28_ChunkDividesAndFits ==
  cpc = "returned" =>
    /\ Len(chunk_shape) = Len(write_shape)
    /\ \A i \in DOMAIN write_shape :
         /\ chunk_shape[i] \in 1..write_shape[i]
         /\ write_shape[i] % chunk_shape[i] = 0
    /\ Product(chunk_shape) <= target_elements

\* a 6 x 4 write shape was cut down to a chunk that is neither the write
\* shape nor a single element
C28_Witness ==
  /\ cpc = "returned"
  /\ write_shape = <<6, 4>>
  /\ target_elements = 7
  /\ chunk_shape # write_shape
  /\ Product(chunk_shape) > 1

\* C29: with target_elements at least the product of the write shape,
\* _choose_chunk_shape returns the write shape.
C29_LargeTargetKeepsShape ==
  (cpc = "returned" /\ target_elements >= Product(write_shape)) =>
    chunk_shape = write_shape

\* the target is exactly the product of a write shape of two axes
C29_Witness ==
  /\ cpc = "returned"
  /\ Len(write_shape) = 2
  /\ Product(write_shape) > 1
  /\ target_elements = Product(write_shape)
  /\ chunk_shape = write_shape

\* C30: _choose_chunk_shape terminates: every iteration of the loop makes
\* the product of the current sizes strictly smaller, the assertion
\* dim_to_reduce_size > 1 never fails, and the call returns.
C30_ChunkLoopTerminates ==
  /\ [][dim_factors' # dim_factors =>
          Product(CurrentChunkShape') < Product(CurrentChunkShape)]_vars
  /\ [][cpc = "loop" /\ cpc' = "loop" => dim_factors' # dim_factors]_vars
  /\ [](cpc # "assert_failed")
  /\ <>(cpc = "returned")

\* a 6 x 6 write shape was reduced, in six iterations, to one element
C30_Witness ==
  /\ cpc = "returned"
  /\ write_shape = <<6, 6>>
  /\ target_elements = 1
  /\ chunk_shape = <<1, 1>>


\* the errors of _update_ts_path_from_relative_to_absolute
InvalidSpecErrors ==
  {"Incorrect TensorStore Spec. Expects kvstore driver to be gcs",
   "Incorrect TensorStore Spec. Expects path to be a key"}

\* C21: _read_ts of a storage spec whose metadata shape differs from the
\* shape of the ParameterInfo fails, with the shape error unless the spec
\* was refused before, and opens no array; when the shapes are equal and the
\* spec is resolved, the array is opened.
C21_ShapeCheckedBeforeOpen ==
  (tpc = "read" /\ ts_given \in TsSpecs /\ info_shape # {}) =>
    IF ts_given.metadata.shape # The(info_shape)
      THEN /\ opened = {}
           /\ ts_error \in {"Shape in checkpoint does not match expected"}
                             \cup InvalidSpecErrors
      ELSE /\ ts_error \in {""} \cup InvalidSpecErrors
           /\ ts_error = "" => opened = {ts_spec_dict}

\* a resolvable spec of shape (2) was read for a parameter of shape (1)
C21_Witness ==
  /\ tpc = "read"
  /\ ts_given \in TsSpecs
  /\ info_shape = {<<1>>}
  /\ ts_given.metadata.shape = <<2>>
  /\ ts_error = "Shape in checkpoint does not match expected"
  /\ opened = {}

\* C24, as stated: for every checkpoint directory and spec, two
\* applications of the relative-to-absolute update leave the spec that one
\* application leaves.
C24_UpdateIsIdempotent ==
  (tpc = "twice" /\ ts_error = "") => ts_spec_dict = ts_once

\* C24, amended: two applications leave the spec of one application exactly
\* when the directory is an absolute local path; under a relative local
\* directory or the directory of a gs:// root the second application
\* prefixes the directory again.
C24_IdempotentForAbsoluteDirs ==
  (tpc = "twice" /\ ts_error = "") =>
    (ts_spec_dict = ts_once <=> ckpt_dir.dir.abs)

\* under an absolute directory the first application changed the spec and
\* the second did not
C24_Witness ==
  /\ tpc = "twice"
  /\ ts_error = ""
  /\ ckpt_dir.dir.abs
  /\ ts_once # ts_given
  /\ ts_spec_dict = ts_once

\* the path of a spec, in its kvstore or at the top level
PathsOf(d) == d.kvstore.path \cup d.path

\* C26: the relative-to-absolute update fails when the driver of the spec
\* does not match the directory, that is for a gs:// directory with another
\* driver than gcs and for a local directory with the gcs driver; on a match
\* the bucket of the directory is set and the path is joined to the
\* directory.
C26_BackendMismatchRejected ==
  tpc = "once" =>
    IF ckpt_dir.gs # (ts_given.kvstore.driver = "gcs")
      THEN ts_error # ""
      ELSE ts_error = "" =>
             /\ ckpt_dir.gs => ts_spec_dict.kvstore.bucket = {ckpt_dir.bucket}
             /\ PathsOf(ts_spec_dict) # PathsOf(ts_given)

\* a spec that holds neither the directory nor a real bucket
Portable(d) ==
  /\ PathsOf(d) \subseteq RelPaths
  /\ d.kvstore.bucket \subseteq {DummyBucket}

\* C27: the spec _write_array returns for the manifest is the relative spec
\* of the ParameterInfo; the resolution to the checkpoint directory and the
\* bucket is made in a copy, which is the one that is opened.
C27_ManifestSpecsStayRelative ==
  (tpc = "written" /\ has_param_info /\ ts_given \in TsSpecs) =>
    /\ manifest_entry = {ts_given}
    /\ Portable(ts_given)
    /\ \A d \in opened : ~Portable(d)

\* a leaf was written under a gs:// directory: the array was opened in the
\* bucket of the directory, the manifest holds the placeholder bucket
C27_Witness ==
  /\ tpc = "written"
  /\ ckpt_dir.gs
  /\ \E d \in opened : d.kvstore.bucket = {ckpt_dir.bucket}
  /\ \E d \in manifest_entry : d.kvstore.bucket = {DummyBucket}


\* the kvstore driver of the backend of the directory
TargetDriver == IF root_is_gs THEN "gcs" ELSE "file"

HasForeignDriver ==
  \E k \in DOMAIN mig_given :
    /\ IsTsSpecDict(mig_given[k])
    /\ mig_given[k].kvstore.driver \notin {"file", "gfile", "gcs"}

\* C23: a migration, in either direction, of contents that hold a storage
\* spec with a driver other than file, gfile and gcs raises an error.
C23_ForeignDriverRejected ==
  (mpc = "once" /\ HasForeignDriver) => mig_error # ""

\* the migration to gcs met a spec of the memory driver
C23_Witness ==
  /\ mpc = "once"
  /\ root_is_gs
  /\ HasForeignDriver
  /\ mig_error = "Unsupported TensoreStore driver"

\* C25: a second migration in the same direction ends without error and
\* leaves the contents as the first left them.
C25_MigrationIsIdempotent ==
  mpc = "twice" => (mig_error = "" /\ ckpt_contents = mig_once)

\* the first migration to file changed the contents, the second did not
C25_Witness ==
  /\ mpc = "twice"
  /\ ~root_is_gs
  /\ mig_once # mig_given
  /\ ckpt_contents = mig_once
  /\ mig_error = ""

\* the largest member of a non-empty set of numbers
MaxOf(S) == CHOOSE m \in S : \A n \in S : n <= m

\* the next-smaller divisor of size below the divisor d (d > 1)
NextSmallerDivisor(size, d) == MaxOf({e \in 1..(d - 1) : size % e = 0})

\* the lowest-index axis among those of the largest current divisor
LowestLargestAxis(cur) ==
  CHOOSE i \in DOMAIN cur :
    /\ \A j \in DOMAIN cur : cur[j] <= cur[i]
    /\ \A j \in DOMAIN cur : cur[j] = cur[i] => i <= j

\* the reference greedy procedure, from the current divisors cur on: while
\* the product exceeds the target, the largest current divisor is replaced
\* by its next-smaller divisor of that axis
RECURSIVE GreedyFrom(_, _, _)
GreedyFrom(shape, cur, target) ==
  IF Product(cur) <= target THEN cur
  ELSE LET a == LowestLargestAxis(cur)
       IN GreedyFrom(shape,
                     [cur EXCEPT ![a] = NextSmallerDivisor(shape[a], cur[a])],
                     target)

\* the reference greedy procedure starts from the full size on every axis
ReferenceGreedy(shape, target) == GreedyFrom(shape, shape, target)

\* C31: the chunk shape _choose_chunk_shape returns is the result of the
\* reference greedy procedure (full size on every axis, then the largest
\* current divisor, on the lowest-index axis among ties, shrunk to its
\* next-smaller divisor while the product exceeds target_elements), and at
\* every head of the loop the rest of the call leads to that same result.
C31_EqualsReferenceGreedy ==
  /\ cpc = "returned" =>
       chunk_shape = ReferenceGreedy(write_shape, target_elements)
  /\ cpc = "loop" =>
       GreedyFrom(write_shape, CurrentChunkShape, target_elements)
         = ReferenceGreedy(write_shape, target_elements)

\* a 6 x 6 write shape with target 18: both axes share the largest divisor,
\* and the lowest-index axis was the one shrunk
C31_Witness ==
  /\ cpc = "returned"
  /\ write_shape = <<6, 6>>
  /\ target_elements = 18
  /\ chunk_shape = <<3, 6>>

\* arr.nbytes of every partitioned leaf of the save is below concurrent_bytes
RequestsBelowBudget == \A l \in PartLeaves : nbytes[l] < ConcurrentBytes

\* the coroutine of leaf l on host h is in wait_for_bytes
Acquiring(h, l) == pc[h] = "write" /\ task[h][l] = "new"

Unlogged == {s \in Before \ {Latest} : ~Logged(s)}

\* C33: without keep_checkpoints_without_metrics, in mode max and in mode
\* min, the metric-based pruning deletes a checkpoint that has a value only
\* when every non-latest checkpoint without value is deleted too, among the
\* checkpoints without value every deleted one is older than every retained
\* one, and when no non-latest checkpoint has a value the deleted ones are
\* the oldest.
C33_UnloggedGoFirstOldestFirst ==
  (rpc = "pruned" /\ save_best /\ ~keep_checkpoints_without_metrics)
    => /\ (\E d \in removed : Logged(d)) => Unlogged \subseteq removed
       /\ \A d \in removed \cap Unlogged, k \in ckpts \cap Unlogged : d < k
       /\ Unlogged = Before \ {Latest}
            => \A d \in removed, k \in ckpts : d < k

\* mode min: of three checkpoints without value the two oldest were deleted,
\* the third and the latest were left
C33_Witness ==
  /\ rpc = "pruned"
  /\ save_best
  /\ ~keep_checkpoints_without_metrics
  /\ metric_mode = "min"
  /\ keep = 1
  /\ removed = {0, 1}
  /\ ckpts = {2, 3}
  /\ Unlogged = {0, 1, 2}

\* C34: the metric-based pruning of a checkpointer with a keep count deletes
\* nothing while at most keep + 1 checkpoints are published, and without
\* keep_checkpoints_without_metrics a pruning of more than keep + 1
\* published checkpoints leaves exactly keep + 1 of them, the latest among
\* them.
C34_BestLeavesKeepPlusOne ==
  (rpc = "pruned" /\ save_best /\ keep > 0)
    => /\ Cardinality(Before) <= keep + 1 => removed = {}
       /\ (~keep_checkpoints_without_metrics /\ Cardinality(Before) > keep + 1)
            => /\ Cardinality(ckpts) = keep + 1
               /\ Latest \in ckpts

\* four published checkpoints, keep = 1: the pruning left the latest and the
\* one of the best value
C34_Witness ==
  /\ rpc = "pruned"
  /\ save_best
  /\ ~keep_checkpoints_without_metrics
  /\ keep = 1
  /\ Cardinality(Before) = 4
  /\ Cardinality(ckpts) = 2
  /\ \E s \in ckpts \ {Latest} : Logged(s) /\ \A d \in removed : Logged(d)

\* run is a proper '/'-prefix of name: some but not all of its components
IsProperPrefix(run, name) ==
  /\ Len(run) >= 1
  /\ Len(run) < Len(name)
  /\ SubSeq(name, 1, Len(run)) = run

\* the positions of the listed log runs that are proper prefixes of the key
MatchingPositions(order) ==
  {i \in DOMAIN order : IsProperPrefix(order[i], metric_name_to_monitor)}

\* C35: a call of _populate_metrics_for_steps that starts without cached
\* names caches the first listed log run that is a proper '/'-prefix of the
\* metric key, with the rest of the key as the tag, and caches nothing when
\* no log run is one; names once cached are changed by no later step,
\* whichever log runs exist by then; and every value a call returns is that
\* of an event of the cached run and tag, for a step that was asked for.
C35_RunResolvedOnceAndCached ==
  /\ [][(scanned'.called /\ metric_run = << >>) =>
          IF MatchingPositions(scanned'.order) = {}
            THEN metric_run' = << >> /\ metric_tag' = << >>
            ELSE LET first == CHOOSE i \in MatchingPositions(scanned'.order) :
                                \A j \in MatchingPositions(scanned'.order) : i <= j
                 IN /\ metric_run' = scanned'.order[first]
                    /\ metric_tag' # << >>
                    /\ metric_run' \o metric_tag' = metric_name_to_monitor]_vars
  /\ [][metric_run # << >> =>
          (metric_run' = metric_run /\ metric_tag' = metric_tag)]_vars
  /\ [](scanned.called =>
          \A st \in DOMAIN collected :
            /\ st \in scanned.steps
            /\ summaries[collected[st]].run = metric_run
            /\ summaries[collected[st]].tag = metric_tag
            /\ summaries[collected[st]].step = st)

\* the names were cached as train and eval/loss; in a later call the run
\* train/eval, which holds an event of tag loss, was listed first, and the
\* value returned is that of the event of train
C35_Witness ==
  /\ scanned.called
  /\ metric_name_to_monitor = <<"train", "eval", "loss">>
  /\ metric_run = <<"train">>
  /\ metric_tag = <<"eval", "loss">>
  /\ Len(scanned.order) = 2
  /\ scanned.order[1] = <<"train", "eval">>
  /\ \E i \in DOMAIN summaries :
       summaries[i].run = <<"train", "eval">> /\ summaries[i].tag = <<"loss">>
  /\ collected # << >>

Synchronizes ==
  /\ \E h \in Hosts : pc[h] \notin {"idle", "broadcast"}
  /\ \E h, g \in Hosts : h # g /\ pc'[h] # pc[h] /\ pc'[g] # pc[g]

\* every host waits at the barrier of position p
Waiting(p) == \A h \in Hosts : pc[h] = p

\* the host is past the last barrier of its save
PastBarriers(h) == pc[h] \in {"manifest", "finalize", "remove_old"}

\* C37, as stated: between staging and promotion the hosts of a save
\* synchronize at two barriers only, the staging barrier (make_dir) and the
\* post-write barrier (write_complete).
C37_ExactlyTwoBarriers ==
  /\ [][Synchronizes =>
          (Waiting("sync_make_dir") \/ Waiting("sync_write_complete"))]_vars
  /\ [](\A h \in Hosts :
          PastBarriers(h) =>
            {b \in Barriers : h \in reached[b]} = {"make_dir", "write_complete"})

\* C37, amended: they synchronize at three barriers, make_dir, then
\* ts_write_complete at the end of _write_state_to_tensorstore, then
\* write_complete, and at nothing else between staging and promotion.
C37_ExactlyThreeBarriers ==
  /\ [][Synchronizes =>
          \/ Waiting("sync_make_dir")
          \/ Waiting("sync_ts_write_complete")
          \/ Waiting("sync_write_complete")]_vars
  /\ [](\A h \in Hosts :
          PastBarriers(h) =>
            {b \in Barriers : h \in reached[b]}
              = {"make_dir", "ts_write_complete", "write_complete"})
  /\ [](\A h \in Hosts :
          /\ pc[h] \in {"write", "sync_ts_write_complete"}
               => reached["make_dir"] = Hosts
          /\ pc[h] \in {"dataset", "sync_write_complete"}
               => reached["ts_write_complete"] = Hosts
          /\ PastBarriers(h) => reached["write_complete"] = Hosts)

\* the designated host writes the manifest after every host has arrived at
\* each of the three barriers
C37_Witness ==
  /\ pc[Designated] = "manifest"
  /\ \A b \in Barriers : reached[b] = Hosts
  /\ \E h \in Hosts : h # Designated /\ pc[h] = "idle"

\* the host finds the final directory and returns from save
Skips(h) == pc[h] = "exists" /\ pc'[h] = "idle"

\* the host does not find the final directory and goes on to the staging
Stages(h) == pc[h] = "exists" /\ pc'[h] \in {"makedirs", "sync_make_dir"}

\* C38: the hosts of a save call take the same branch at
\* gfile.exists(final_dir): while a host is at the check no final directory
\* appears or disappears; when a host returns as a no-op no host of the call
\* is staging or waiting at the make_dir barrier; when a host goes on to the
\* staging no host has left the call; and no host waits at the make_dir
\* barrier while another is outside the call.  A host that calls save again
\* while the designated host writes the manifest or promotes waits in the
\* timestamp broadcast.
C38_SameBranchAtExistsCheck ==
  /\ [][(\E h \in Hosts : pc[h] = "exists") =>
          \A s \in Steps : Exists(final_dir(s))' = Exists(final_dir(s))]_vars
  /\ [][\A h \in Hosts :
          Skips(h) => \A g \in Hosts : pc[g] \in {"idle", "broadcast", "exists"}]_vars
  /\ [][\A h \in Hosts :
          Stages(h) =>
            \A g \in Hosts : pc[g] \in {"exists", "makedirs", "sync_make_dir"}]_vars
  /\ [](\A h, g \in Hosts :
          pc[h] = "sync_make_dir" => pc[g] \notin {"idle", "broadcast"})

\* a non-designated host has called save again for the step whose manifest
\* the designated host has written and whose staging directory it is about
\* to promote
C38_Witness ==
  \E h \in Hosts :
    /\ h # Designated
    /\ pc[h] = "broadcast"
    /\ pc[Designated] = "finalize"
    /\ step[h] = step[Designated]
    /\ ~Exists(final_dir(step[h]))

\* ---------------------------------------------------------------------
\* all_steps over the names under checkpoints_dir.  A directory name is a
\* sequence of characters in which the literals 'checkpoint_' and '.tmp-'
\* are one element each and every decimal digit is an element of its own.
\* ---------------------------------------------------------------------

DigitChars == <<"0", "1", "2", "3", "4", "5", "6", "7", "8", "9">>

\* the steps and timestamps whose directories are created
DirSteps == {2, 9, MaxDirStep}
DirTimes == {3, MaxDirStep}

\* '{step}' in an f-string: the decimal digits, no leading zero
RECURSIVE Decimal(_)
Decimal(n) ==
  IF n < 10 THEN <<DigitChars[n + 1]>>
  ELSE Decimal(n \div 10) \o <<DigitChars[(n % 10) + 1]>>

\* get_checkpoint_dir: f'checkpoint_{step}'
get_checkpoint_dir(s) == <<"checkpoint_">> \o Decimal(s)

\* Checkpointer.save: final_dir + f'.tmp-{timestamp}'
StagingName(s, t) == get_checkpoint_dir(s) \o <<".tmp-">> \o Decimal(t)

IsDigit(c) == \E i \in 1..10 : DigitChars[i] = c

DigitValue(c) == (CHOOSE i \in 1..10 : DigitChars[i] = c) - 1

\* int(match.group(1))
RECURSIVE ParseInt(_)
ParseInt(ds) ==
  IF ds = << >> THEN 0
  ELSE 10 * ParseInt(SubSeq(ds, 1, Len(ds) - 1)) + DigitValue(ds[Len(ds)])

\* gfile.glob(checkpoints_dir/checkpoint_*/checkpoint)
GlobMatches(e) == e.name[1] = "checkpoint_" /\ e.manifest

\* the length of the longest run of digits that starts at position i
RECURSIVE DigitRun(_, _)
DigitRun(name, i) ==
  IF i <= Len(name) /\ IsDigit(name[i]) THEN 1 + DigitRun(name, i + 1) ELSE 0

RegexGroup_Unanchored(name) ==
  SubSeq(name, 2, 1 + DigitRun(name, 2))

\* re.match(r'.*/checkpoint_(\d+)/checkpoint$'): the group, << >> for no match
RegexGroup(name) ==
  IF DigitRun(name, 2) >= 1 /\ 1 + DigitRun(name, 2) = Len(name)
  THEN SubSeq(name, 2, Len(name))
  ELSE << >>

\* sorted(...) of the numbers parsed from a set of names, one per name
RECURSIVE SortedParsed(_)
SortedParsed(names) ==
  IF names = {} THEN << >>
  ELSE LET n == CHOOSE x \in names :
                  \A y \in names : ParseInt(RegexGroup(x)) <= ParseInt(RegexGroup(y))
       IN  <<ParseInt(RegexGroup(n))>> \o SortedParsed(names \ {n})

\* all_steps(checkpoints_dir)
AllStepsIn(es) ==
  SortedParsed({e.name : e \in {x \in es : GlobMatches(x) /\ RegexGroup(x.name) # << >>}})

\* latest_step(checkpoints_dir): -1 stands for None
LatestStepIn(es) ==
  IF AllStepsIn(es) = << >> THEN -1 ELSE AllStepsIn(es)[Len(AllStepsIn(es))]

Names(es) == {e.name : e \in es}

\* save: gfile.makedirs(tmp_dir), unless the final directory exists
MakeStagingDir(s, t) ==
  /\ get_checkpoint_dir(s) \notin Names(entries)
  /\ StagingName(s, t) \notin Names(entries)
  /\ Cardinality(entries) < MaxDirs
  /\ entries' = entries \cup {[name |-> StagingName(s, t), manifest |-> FALSE]}
  /\ listed' = NotListed
  /\ UNCHANGED <<keep, savevars, retention, restoring, chunking, tspaths, migrating, metricrun>>

\* save: msgpack file 'checkpoint' written into the staging directory
WriteManifestInto(s, t) ==
  /\ [name |-> StagingName(s, t), manifest |-> FALSE] \in entries
  /\ entries' = (entries \ {[name |-> StagingName(s, t), manifest |-> FALSE]})
                  \cup {[name |-> StagingName(s, t), manifest |-> TRUE]}
  /\ listed' = NotListed
  /\ UNCHANGED <<keep, savevars, retention, restoring, chunking, tspaths, migrating, metricrun>>

\* save: gfile.rename(tmp_dir, final_dir)
RenameToFinal(s, t) ==
  /\ [name |-> StagingName(s, t), manifest |-> TRUE] \in entries
  /\ get_checkpoint_dir(s) \notin Names(entries)
  /\ entries' = (entries \ {[name |-> StagingName(s, t), manifest |-> TRUE]})
                  \cup {[name |-> get_checkpoint_dir(s), manifest |-> TRUE]}
  /\ listed' = NotListed
  /\ UNCHANGED <<keep, savevars, retention, restoring, chunking, tspaths, migrating, metricrun>>

\* a caller lists the steps (restore resolution reads the last one)
ListAllSteps ==
  /\ ~listed.called
  /\ listed' = [called |-> TRUE, steps |-> AllStepsIn(entries)]
  /\ UNCHANGED <<keep, savevars, retention, restoring, chunking, tspaths, migrating, metricrun,
                 entries>>

\* _remove_old_checkpoints: rmtree(get_checkpoint_dir(step)) for the first
\* len - keep of all_steps
RemoveListedOld ==
  /\ Len(AllStepsIn(entries)) > keep
  /\ entries' = {e \in entries :
                   \A i \in 1..(Len(AllStepsIn(entries)) - keep) :
                     e.name # get_checkpoint_dir(AllStepsIn(entries)[i])}
  /\ listed' = NotListed
  /\ UNCHANGED <<keep, savevars, retention, restoring, chunking, tspaths, migrating, metricrun>>

InitListing ==
  /\ gcs = FALSE
  /\ NoSaving
  /\ keep \in 1..MaxKeepListed
  /\ NoRetention
  /\ NoRestoring
  /\ NoChunking
  /\ NoTsPaths
  /\ NoMigrating
  /\ NoMetricRun
  /\ entries = {}
  /\ listed = NotListed

NextListing ==
  \/ \E s \in DirSteps, t \in DirTimes : MakeStagingDir(s, t)
  \/ \E s \in DirSteps, t \in DirTimes : WriteManifestInto(s, t)
  \/ \E s \in DirSteps, t \in DirTimes : RenameToFinal(s, t)
  \/ ListAllSteps
  \/ RemoveListedOld

SpecListing == InitListing /\ [][NextListing]_vars

\* the steps whose directory checkpoint_<s> holds a manifest file
PublishedDirs ==
  {s \in 0..MaxDirStep :
     \E e \in entries : e.name = get_checkpoint_dir(s) /\ e.manifest}

IsStagingName(n) == \E i \in 1..Len(n) : n[i] = ".tmp-"

\* C39: all_steps returns, ascending by number and without duplicates,
\* exactly the steps s whose directory checkpoint_<s> holds a manifest; a
\* staging directory checkpoint_<s>.tmp-<timestamp> is never listed, with
\* or without a manifest in it, is never the latest step, and is never
\* removed by pruning.
C39_AllStepsListsPublishedOnly ==
  /\ [](listed.called =>
          /\ \A i, j \in 1..Len(listed.steps) :
               i < j => listed.steps[i] < listed.steps[j]
          /\ {listed.steps[i] : i \in 1..Len(listed.steps)} = PublishedDirs
          /\ LatestStepIn(entries) \in PublishedDirs \cup {-1})
  /\ [][\A n \in Names(entries) :
          (IsStagingName(n) /\ n \notin Names(entries'))
            => \E s \in DirSteps :
                 /\ get_checkpoint_dir(s) \in Names(entries') \ Names(entries)
                 /\ \E t \in DirTimes : n = StagingName(s, t)]_vars

\* a staging directory of step 10 holds its manifest beside the published
\* steps 2 and 9, and the list is 2, 9
C39_Witness ==
  /\ listed.called
  /\ listed.steps = <<2, 9>>
  /\ \E t \in DirTimes :
       [name |-> StagingName(MaxDirStep, t), manifest |-> TRUE] \in entries

\* the published steps larger than s
LargerPublished(s) == {t \in all_steps : t > s}

\* C40: the pruning ranks by step number, not by time of saving: when the
\* save of step s with keep = k >= 1 has promoted and pruned, checkpoint_<s>
\* exists if and only if fewer than k published steps are larger than s; a
\* save of a step below k published steps is promoted and then deleted by
\* its own pruning.
C40_PruneRanksByStepNumber ==
  [][\A h \in Hosts :
       (pc[h] = "remove_old" /\ pc'[h] = "idle" /\ keep >= 1)
         => /\ step[h] \in promoted
            /\ <<final_dir(step[h]), ManifestFile>> \in files
            /\ (<<final_dir(step[h]), ManifestFile>> \in files'
                  <=> Cardinality(LargerPublished(step[h])) < keep)
            /\ (final_dir(step[h]) \in dirs'
                  <=> Cardinality(LargerPublished(step[h])) < keep)
            /\ (Cardinality(LargerPublished(step[h])) >= keep
                  => step[h] \notin promoted')]_vars

\* the save of a step below keep published steps has promoted its directory
\* and its own pruning is next
C40_Witness ==
  /\ keep >= 1
  /\ pc[Designated] = "remove_old"
  /\ step[Designated] \in promoted
  /\ <<final_dir(step[Designated]), ManifestFile>> \in files
  /\ Cardinality(LargerPublished(step[Designated])) >= keep

====
